---- MODULE Spec2Model ----
(***************************************************************************)
(* Model of FPL-Elo-Insights: the scoring rules engine,                    *)
(* src/analysis/fpl_expected_points_calculator.py, and the two automation  *)
(* scripts.                                                                *)
(*                                                                         *)
(* One player-match record (player_stats) is scored the way the loop body  *)
(* of analyze_players scores it: calculate_base_fpl_points, then           *)
(* calculate_expected_base_fpl_points, then                                *)
(* calculate_actual_fpl_points_with_bonus, then                            *)
(* calculate_defensive_contributions.                                      *)
(*                                                                         *)
(* xg and xa are floats in the program.  Here they are exact rationals     *)
(* with denominator XgDenominator: the field holds the numerator, and the  *)
(* expected points are kept as a numerator over the same denominator.      *)
(*                                                                         *)
(* A nullable numeric column (bonus) holds a sequence: << >> for NaN and   *)
(* <<n>> for the number n.  In the same way the argument                   *)
(* match_players_bps is << >> for None and <<l>> for the list l.           *)
(*                                                                         *)
(* calculate_expected_bonus_points is called by nothing in the repository; *)
(* SpecBonus applies it to a player's BPS and a match's list of BPS.       *)
(*                                                                         *)
(* SpecBatch is analyze_players on a batch: a data frame is the sequence   *)
(* of its rows, every row a record over the frame's columns.  The result   *)
(* of a division is a record [kind, num, den]: kind is "finite" for        *)
(* num / den, and "inf", "-inf" or "nan" for what pandas yields on a       *)
(* division by zero.                                                       *)
(*                                                                         *)
(* SpecReport is the part of print_analysis that ranks the result frame:   *)
(* get_top_performers and the over- and under-performer lists.             *)
(*                                                                         *)
(* SpecAutomation is run_full_automation of                                *)
(* src/automation/full_update_automation.py and SpecIngestion is           *)
(* import_season_data of src/automation/database_ingestion.py, each with   *)
(* the outcomes of the commands and database calls left to the             *)
(* environment.                                                            *)
(***************************************************************************)
EXTENDS Integers, FiniteSets, Sequences, TLC

VARIABLES player_stats, pc, actual_base_points, expected_base_points,
          actual_total_points, defensive_points

record_vars == <<player_stats, pc, actual_base_points, expected_base_points,
                 actual_total_points, defensive_points>>

VARIABLES player_bps, match_players_bps, expected_bonus_points

bonus_vars == <<player_bps, match_players_bps, expected_bonus_points>>

VARIABLES df, playerstats_df, min_minutes, df_filtered, results, best_value

batch_vars == <<df, playerstats_df, min_minutes, df_filtered, results, best_value>>

VARIABLES requested_metric, requested_n, top_performers, overperformers, underperformers

report_vars == <<requested_metric, requested_n, top_performers, overperformers, underperformers>>

VARIABLES update_summary, updates_available, log, players_count, return_value

automation_vars == <<update_summary, updates_available, log, players_count,
                     return_value>>

VARIABLES season_data, tables, transaction, import_summary, imported

ingestion_vars == <<season_data, tables, transaction, import_summary, imported>>

\* the state of the report, the automation and the ingestion
other_vars == <<report_vars, automation_vars, ingestion_vars>>

vars == <<record_vars, bonus_vars, batch_vars, other_vars>>

(***************************************************************************)
(* Bounds of the input records.                                            *)
(***************************************************************************)
MaxGoals == 2
MaxAssists == 2
MaxXg == 2
MaxXa == 2
XgDenominator == 2
MaxConceded == 4
MaxSaves == 6
MaxPenaltiesMissed == 2
MaxDefensiveStat == 3
FullMatch == 90
MaxBonus == 3
MaxMissing == 2
MaxMatchPlayers == 4
MaxBatch == 2

(***************************************************************************)
(* Python helpers.                                                         *)
(***************************************************************************)
\* dict.get(key, default) / Series.get(key, default)
Get(d, key, default) == IF key \in DOMAIN d THEN d[key] ELSE default

\* abs(x)
Abs(x) == IF x < 0 THEN -x ELSE x

\* pd.notna(x) for a value of a nullable numeric column
notna(x) == x # << >>

\* sorted(l, reverse=True): insertion of each element after the elements
\* that are >= it
RECURSIVE InsertDescending(_, _)
InsertDescending(x, l) ==
    IF l = << >> THEN <<x>>
    ELSE IF x > Head(l) THEN <<x>> \o l
    ELSE <<Head(l)>> \o InsertDescending(x, Tail(l))

RECURSIVE SortedDescending(_)
SortedDescending(l) ==
    IF l = << >> THEN << >>
    ELSE InsertDescending(Head(l), SortedDescending(Tail(l)))

\* the concatenation of the sequences of the sequence ll
RECURSIVE Flatten(_)
Flatten(ll) == IF ll = << >> THEN << >> ELSE Head(ll) \o Flatten(Tail(ll))

\* x in l
Contains(l, x) == \E i \in DOMAIN l : l[i] = x

\* l.index(x), 0-based, for x in l
IndexOf(l, x) == (CHOOSE i \in DOMAIN l : l[i] = x /\ \A j \in 1..(i - 1) : l[j] # x) - 1

\* the 0-based index of the last x in l
LastIndexOf(l, x) ==
    (CHOOSE i \in DOMAIN l : l[i] = x /\ \A j \in (i + 1)..Len(l) : l[j] # x) - 1

(***************************************************************************)
(* FPLExpectedPointsCalculator.__init__: the scoring constants.            *)
(***************************************************************************)
SCORING_RULES ==
    [ appearance |-> 1,
      played_60_min |-> 2,
      goal_points |-> [Goalkeeper |-> 6, Defender |-> 6, Midfielder |-> 5, Forward |-> 4],
      assist |-> 3,
      clean_sheet |-> [Goalkeeper |-> 4, Defender |-> 4, Midfielder |-> 1, Forward |-> 0],
      saves_per_point |-> 3,
      penalty_save |-> 5,
      penalty_miss |-> -2,
      own_goal |-> -2,
      yellow_card |-> -1,
      red_card |-> -3,
      goals_conceded_penalty |-> -1,
      defensive_contributions |-> 2 ]

(***************************************************************************)
(* calculate_defensive_contributions                                       *)
(***************************************************************************)
calculate_defensive_contributions_NoRecoveries(ps, position) ==
    LET clearances == Get(ps, "clearances", 0)
        blocks == Get(ps, "blocks", 0)
        interceptions == Get(ps, "interceptions", 0)
        tackles == Get(ps, "tackles_won", 0)
    IN  IF position = "Defender"
        THEN IF clearances + blocks + interceptions + tackles >= 10
             THEN SCORING_RULES.defensive_contributions ELSE 0
        ELSE IF clearances + blocks + interceptions + tackles >= 12
             THEN SCORING_RULES.defensive_contributions ELSE 0

calculate_defensive_contributions_Partial(ps, position) ==
    LET clearances == Get(ps, "clearances", 0)
        blocks == Get(ps, "blocks", 0)
        interceptions == Get(ps, "interceptions", 0)
        tackles == Get(ps, "tackles_won", 0)
    IN  IF position = "Defender"
        THEN LET cbit_total == clearances + blocks + interceptions + tackles
             IN  IF cbit_total >= 10 THEN SCORING_RULES.defensive_contributions
                 ELSE IF cbit_total >= 5 THEN 1 ELSE 0
        ELSE LET recoveries == Get(ps, "recoveries", 0)
                 cbirt_total == clearances + blocks + interceptions + recoveries + tackles
             IN  IF cbirt_total >= 12 THEN SCORING_RULES.defensive_contributions
                 ELSE IF cbirt_total >= 6 THEN 1 ELSE 0

calculate_defensive_contributions(ps, position) ==
    LET clearances == Get(ps, "clearances", 0)
        blocks == Get(ps, "blocks", 0)
        interceptions == Get(ps, "interceptions", 0)
        tackles == Get(ps, "tackles_won", 0)
    IN  IF position = "Defender"
        THEN LET cbit_total == clearances + blocks + interceptions + tackles
             IN  IF cbit_total >= 10 THEN SCORING_RULES.defensive_contributions ELSE 0
        ELSE LET recoveries == Get(ps, "recoveries", 0)
                 cbirt_total == clearances + blocks + interceptions + recoveries + tackles
             IN  IF cbirt_total >= 12 THEN SCORING_RULES.defensive_contributions ELSE 0

(***************************************************************************)
(* calculate_expected_bonus_points                                         *)
(***************************************************************************)
\* FPL bonus points system: 3, 2, 1 for top 3 BPS scores
BonusForRank(player_rank) ==
    IF player_rank = 0 THEN 3
    ELSE IF player_rank = 1 THEN 2
    ELSE IF player_rank = 2 THEN 1
    ELSE 0

calculate_expected_bonus_points_LastOccurrence(bps, match_bps) ==
    IF match_bps = << >> \/ Len(match_bps[1]) = 0 THEN 0
    ELSE LET sorted_bps == SortedDescending(match_bps[1])
         IN  IF ~Contains(sorted_bps, bps) THEN 0
             ELSE BonusForRank(LastIndexOf(sorted_bps, bps))

calculate_expected_bonus_points_RankOfMissing(bps, match_bps) ==
    IF match_bps = << >> \/ Len(match_bps[1]) = 0 THEN 0
    ELSE LET sorted_bps == SortedDescending(match_bps[1])
         IN  IF ~Contains(sorted_bps, bps)
             THEN BonusForRank(Cardinality({i \in DOMAIN sorted_bps : sorted_bps[i] > bps}))
             ELSE BonusForRank(IndexOf(sorted_bps, bps))

calculate_expected_bonus_points_SharedRank(bps, match_bps) ==
    IF match_bps = << >> \/ Len(match_bps[1]) = 0 THEN 0
    ELSE LET sorted_bps == SortedDescending(match_bps[1])
         IN  IF ~Contains(sorted_bps, bps) THEN 0
             ELSE BonusForRank(Cardinality({ sorted_bps[i] : i \in DOMAIN sorted_bps }
                                               \cap { b \in Int : b > bps }))

calculate_expected_bonus_points(bps, match_bps) ==
    IF match_bps = << >> \/ Len(match_bps[1]) = 0 THEN 0
    ELSE LET sorted_bps == SortedDescending(match_bps[1])
         IN  IF ~Contains(sorted_bps, bps) THEN 0
             ELSE BonusForRank(IndexOf(sorted_bps, bps))

(***************************************************************************)
(* calculate_base_fpl_points, rule by rule: each operator is what one      *)
(* numbered block of the function adds to points.                          *)
(***************************************************************************)
\* 1. Appearance points
base_appearance(ps) ==
    IF ps["minutes_played"] >= 1 THEN SCORING_RULES.appearance ELSE 0

\* 2. Playing time bonus (60+ minutes)
base_playing_time_Additive(ps) ==
    IF ps["minutes_played"] >= 60 THEN SCORING_RULES.played_60_min ELSE 0

base_playing_time(ps) ==
    IF ps["minutes_played"] >= 60
    THEN SCORING_RULES.played_60_min - SCORING_RULES.appearance
    ELSE 0

\* 3. Goals
base_goals_DefaultFive(ps) ==
    LET goals == Get(ps, "goals", 0)
    IN  IF goals > 0
        THEN goals * Get(SCORING_RULES.goal_points, ps["position"], 5)
        ELSE 0

base_goals_ForwardTier(ps) ==
    LET goals == Get(ps, "goals", 0)
    IN  IF goals > 0 THEN goals * 4 ELSE 0

base_goals(ps) ==
    LET goals == Get(ps, "goals", 0)
    IN  IF goals > 0
        THEN goals * Get(SCORING_RULES.goal_points, ps["position"], 4)
        ELSE 0

\* 4. Assists
base_assists_Subtracted(ps) ==
    LET assists == Get(ps, "assists", 0)
    IN  IF assists > 0 THEN -(assists * SCORING_RULES.assist) ELSE 0

base_assists(ps) ==
    LET assists == Get(ps, "assists", 0)
    IN  IF assists > 0 THEN assists * SCORING_RULES.assist ELSE 0

\* 5. Clean sheet (team didn't concede)
base_clean_sheet_DefaultConceded(ps) ==
    LET team_goals_conceded == Get(ps, "team_goals_conceded", 1)
    IN  IF team_goals_conceded = 0 /\ ps["minutes_played"] >= 60
        THEN Get(SCORING_RULES.clean_sheet, ps["position"], 0)
        ELSE 0

base_clean_sheet_NoMinutes(ps) ==
    LET team_goals_conceded == Get(ps, "team_goals_conceded", 0)
    IN  IF team_goals_conceded = 0
        THEN Get(SCORING_RULES.clean_sheet, ps["position"], 0)
        ELSE 0

base_clean_sheet(ps) ==
    LET team_goals_conceded == Get(ps, "team_goals_conceded", 0)
    IN  IF team_goals_conceded = 0 /\ ps["minutes_played"] >= 60
        THEN Get(SCORING_RULES.clean_sheet, ps["position"], 0)
        ELSE 0

\* 6. Saves (Goalkeepers only)
base_saves_AnyPosition(ps) ==
    Get(ps, "saves", 0) \div SCORING_RULES.saves_per_point

base_saves_PerSave(ps) ==
    IF ps["position"] = "Goalkeeper" THEN Get(ps, "saves", 0) ELSE 0

base_saves(ps) ==
    IF ps["position"] = "Goalkeeper"
    THEN Get(ps, "saves", 0) \div SCORING_RULES.saves_per_point
    ELSE 0

\* 7. Goals conceded penalty (GK/DEF only); what is added to points, so <= 0
base_goals_conceded_PerGoal(ps) ==
    LET team_goals_conceded == Get(ps, "team_goals_conceded", 0)
    IN  IF ps["position"] \in {"Goalkeeper", "Defender"} /\ ps["minutes_played"] >= 60
        THEN -(team_goals_conceded * Abs(SCORING_RULES.goals_conceded_penalty))
        ELSE 0

base_goals_conceded(ps) ==
    LET team_goals_conceded == Get(ps, "team_goals_conceded", 0)
    IN  IF ps["position"] \in {"Goalkeeper", "Defender"} /\ ps["minutes_played"] >= 60
        THEN -((team_goals_conceded \div 2) * Abs(SCORING_RULES.goals_conceded_penalty))
        ELSE 0

\* 8. Penalty misses
base_penalty_misses_Once(ps) ==
    LET penalty_misses == Get(ps, "penalties_missed", 0)
    IN  IF penalty_misses > 0 THEN SCORING_RULES.penalty_miss ELSE 0

base_penalty_misses(ps) ==
    LET penalty_misses == Get(ps, "penalties_missed", 0)
    IN  IF penalty_misses > 0 THEN penalty_misses * SCORING_RULES.penalty_miss ELSE 0

calculate_base_fpl_points_NoDefensive(ps) ==
    base_appearance(ps) + base_playing_time(ps) + base_goals(ps) + base_assists(ps)
    + base_clean_sheet(ps) + base_saves(ps) + base_goals_conceded(ps)
    + base_penalty_misses(ps)

calculate_base_fpl_points(ps) ==
    base_appearance(ps) + base_playing_time(ps) + base_goals(ps) + base_assists(ps)
    + base_clean_sheet(ps) + base_saves(ps) + base_goals_conceded(ps)
    + base_penalty_misses(ps)
    + calculate_defensive_contributions(ps, ps["position"])

(***************************************************************************)
(* calculate_actual_fpl_points_with_bonus                                  *)
(***************************************************************************)
calculate_actual_fpl_points_with_bonus_BaseOnly(ps) ==
    calculate_base_fpl_points(ps)

calculate_actual_fpl_points_with_bonus(ps) ==
    LET base_points == calculate_base_fpl_points(ps)
        bonus_points == IF notna(Get(ps, "bonus", <<0>>))
                        THEN Get(ps, "bonus", <<0>>)[1]
                        ELSE 0
    IN  base_points + bonus_points

(***************************************************************************)
(* calculate_expected_base_fpl_points, rule by rule.  The xg and xa blocks *)
(* yield numerators over XgDenominator; the other blocks yield integers.   *)
(***************************************************************************)
\* 1. Appearance points (if played)
expected_appearance(ps) ==
    IF ps["minutes_played"] >= 1 THEN SCORING_RULES.appearance ELSE 0

\* 2. Playing time bonus (60+ minutes)
expected_playing_time(ps) ==
    IF ps["minutes_played"] >= 60
    THEN SCORING_RULES.played_60_min - SCORING_RULES.appearance
    ELSE 0

\* 3. Expected goals
expected_goals_ForwardTier(ps) ==
    LET xg == Get(ps, "xg", 0)
    IN  IF xg > 0 THEN xg * 4 ELSE 0

expected_goals(ps) ==
    LET xg == Get(ps, "xg", 0)
    IN  IF xg > 0
        THEN xg * Get(SCORING_RULES.goal_points, ps["position"], 4)
        ELSE 0

\* 4. Expected assists
expected_assists(ps) ==
    LET xa == Get(ps, "xa", 0)
    IN  IF xa > 0 THEN xa * SCORING_RULES.assist ELSE 0

\* 5. Clean sheet probability (simplified - use actual for now)
expected_clean_sheet(ps) ==
    LET team_goals_conceded == Get(ps, "team_goals_conceded", 0)
    IN  IF team_goals_conceded = 0 /\ ps["minutes_played"] >= 60
        THEN Get(SCORING_RULES.clean_sheet, ps["position"], 0)
        ELSE 0

\* 6. Saves (use actual saves for now)
expected_saves(ps) ==
    IF ps["position"] = "Goalkeeper"
    THEN Get(ps, "saves", 0) \div SCORING_RULES.saves_per_point
    ELSE 0

\* 7. Goals conceded penalty (use actual)
expected_goals_conceded(ps) ==
    LET team_goals_conceded == Get(ps, "team_goals_conceded", 0)
    IN  IF ps["position"] \in {"Goalkeeper", "Defender"} /\ ps["minutes_played"] >= 60
        THEN -((team_goals_conceded \div 2) * Abs(SCORING_RULES.goals_conceded_penalty))
        ELSE 0

\* 8. Penalty misses (use actual)
expected_penalty_misses(ps) ==
    LET penalty_misses == Get(ps, "penalties_missed", 0)
    IN  IF penalty_misses > 0 THEN penalty_misses * SCORING_RULES.penalty_miss ELSE 0

\* the result as a numerator over XgDenominator
calculate_expected_base_fpl_points(ps) ==
    XgDenominator
        * ( expected_appearance(ps) + expected_playing_time(ps)
            + expected_clean_sheet(ps) + expected_saves(ps)
            + expected_goals_conceded(ps) + expected_penalty_misses(ps)
            + calculate_defensive_contributions(ps, ps["position"]) )
    + expected_goals(ps) + expected_assists(ps)

(***************************************************************************)
(* Input records.                                                          *)
(***************************************************************************)
\* the four positions of the rule tables and one value outside them
Positions == {"Goalkeeper", "Defender", "Midfielder", "Forward", "Unknown"}

\* minutes on both sides of the two thresholds of the rules
MinutesPlayed == {0, 1, 59, 60, FullMatch}

EmptyRecord(position, minutes) ==
    [ position |-> position, minutes_played |-> minutes,
      goals |-> 0, assists |-> 0, xg |-> 0, xa |-> 0,
      team_goals_conceded |-> 0, saves |-> 0, penalties_missed |-> 0,
      clearances |-> 0, blocks |-> 0, interceptions |-> 0,
      tackles_won |-> 0, recoveries |-> 0 ]

\* records that vary the match-state fields
MatchRecords ==
    { [EmptyRecord(p, m) EXCEPT !.team_goals_conceded = c, !.saves = s, !.goals = g]
        : p \in Positions, m \in MinutesPlayed, c \in 0..MaxConceded,
          s \in 0..MaxSaves, g \in 0..MaxGoals }

\* records that vary the attacking fields
AttackRecords ==
    { [EmptyRecord(p, m) EXCEPT !.goals = x[1], !.assists = x[2], !.xg = x[3],
                                !.xa = x[4], !.penalties_missed = x[5]]
        : p \in Positions, m \in MinutesPlayed,
          x \in (0..MaxGoals) \X (0..MaxAssists) \X (0..MaxXg) \X (0..MaxXa)
                \X (0..MaxPenaltiesMissed) }

\* records that vary the defensive fields
DefensiveRecords ==
    { [EmptyRecord(p, m) EXCEPT !.clearances = x[1], !.blocks = x[2],
                                !.interceptions = x[3], !.tackles_won = x[4],
                                !.recoveries = x[5]]
        : p \in Positions, m \in {0, FullMatch},
          x \in (0..MaxDefensiveStat) \X (0..MaxDefensiveStat) \X (0..MaxDefensiveStat)
                \X (0..MaxDefensiveStat) \X (0..MaxDefensiveStat) }

\* records merged with the playerstats data: a bonus column, NaN or a number
BonusRecords ==
    { [f \in DOMAIN EmptyRecord(p, m) \cup {"bonus"} |->
          IF f = "bonus" THEN b
          ELSE IF f = "goals" THEN g
          ELSE EmptyRecord(p, m)[f]]
        : p \in Positions, m \in MinutesPlayed, g \in 0..MaxGoals,
          b \in {<< >>} \cup { <<n>> : n \in 0..MaxBonus } }

\* a centre-back who scores, keeps a clean sheet and makes 11 defensive actions
DefenderScenario ==
    [EmptyRecord("Defender", 90) EXCEPT !.goals = 1, !.clearances = 5, !.blocks = 2,
                                        !.interceptions = 2, !.tackles_won = 2]

\* a goalkeeper who makes 9 saves and concedes 3
GoalkeeperScenario ==
    [EmptyRecord("Goalkeeper", 90) EXCEPT !.saves = 9, !.team_goals_conceded = 3]

ScenarioRecords == { DefenderScenario, GoalkeeperScenario }

PlayerMatchRecords ==
    MatchRecords \cup AttackRecords \cup DefensiveRecords \cup BonusRecords
        \cup ScenarioRecords

\* the fields the calculators read with a default
OptionalFields ==
    { "goals", "assists", "xg", "xa", "team_goals_conceded", "saves",
      "penalties_missed", "clearances", "blocks", "interceptions",
      "tackles_won", "recoveries" }

\* a record in which every rule has something to score
BusyRecord(position, minutes) ==
    [ position |-> position, minutes_played |-> minutes,
      goals |-> 1, assists |-> 1, xg |-> 1, xa |-> 1,
      team_goals_conceded |-> 2, saves |-> 3, penalties_missed |-> 1,
      clearances |-> 3, blocks |-> 3, interceptions |-> 3,
      tackles_won |-> 3, recoveries |-> 3 ]

\* the record r without the fields of the set missing
Without(r, missing) == [f \in DOMAIN r \ missing |-> r[f]]

\* records that lack up to MaxMissing of the optional fields
MissingFieldRecords ==
    { Without(BusyRecord(p, m), missing)
        : p \in Positions, m \in {0, FullMatch},
          missing \in { F \in SUBSET OptionalFields : Cardinality(F) <= MaxMissing } }

(***************************************************************************)
(* The state machine: the body of the loop of analyze_players.             *)
(***************************************************************************)
InitResults ==
    /\ pc = "start"
    /\ actual_base_points = 0
    /\ expected_base_points = 0
    /\ actual_total_points = 0
    /\ defensive_points = 0

(***************************************************************************)
(* merge_with_playerstats                                                  *)
(***************************************************************************)
\* the columns of playerstats that the merge attaches
MergedColumns == {"bonus", "bps", "event_points", "defensive_contribution"}

\* drop_duplicates(subset=['web_name'], keep='first')
DropDuplicates(rows) ==
    SelectSeq([i \in DOMAIN rows |-> <<i, rows[i]>>],
              LAMBDA e : \A j \in 1..(e[1] - 1) : rows[j].web_name # e[2].web_name)

\* the rows a left merge on web_name makes of one left row
MergedRows(row, right) ==
    LET matches == SelectSeq(right, LAMBDA e : e.web_name = row.web_name)
        attach(values) ==
            [f \in DOMAIN row \cup MergedColumns |->
                IF f \in MergedColumns THEN values[f] ELSE row[f]]
    IN  IF matches = << >>
        THEN << attach([f \in MergedColumns |-> << >>]) >>
        ELSE [k \in DOMAIN matches |-> attach(matches[k])]

merge_with_playerstats_KeepsDuplicates(playermatchstats_df, stats_df) ==
    IF stats_df = << >> THEN playermatchstats_df
    ELSE LET gw_playerstats == SelectSeq(stats_df, LAMBDA e : e.gw = 1)
         IN  IF gw_playerstats = << >> THEN playermatchstats_df
             ELSE Flatten([i \in DOMAIN playermatchstats_df |->
                              MergedRows(playermatchstats_df[i], gw_playerstats)])

merge_with_playerstats(playermatchstats_df, stats_df) ==
    IF stats_df = << >> THEN playermatchstats_df
    ELSE LET gw_playerstats == SelectSeq(stats_df, LAMBDA e : e.gw = 1)
         IN  IF gw_playerstats = << >> THEN playermatchstats_df
             ELSE LET unique == DropDuplicates(gw_playerstats)
                      gw_playerstats_unique == [k \in DOMAIN unique |-> unique[k][2]]
                  IN  Flatten([i \in DOMAIN playermatchstats_df |->
                                  MergedRows(playermatchstats_df[i],
                                             gw_playerstats_unique)])

(***************************************************************************)
(* analyze_players: the filter and the body of the loop                    *)
(***************************************************************************)
\* df[df['minutes_played'] >= min_minutes]
FilterMinutes(frame, minimum) ==
    SelectSeq(frame, LAMBDA row : row.minutes_played >= minimum)

\* the columns the loop reads with player_stats[...]
IndexedColumns ==
    { "position", "minutes_played", "web_name", "team_code", "match_id",
      "goals", "assists", "xg", "xa", "team_goals_conceded" }

\* x.get(column, 0) if pd.notna(x.get(column, 0)) else 0
GetOrZero(row, column) ==
    IF notna(Get(row, column, <<0>>)) THEN Get(row, column, <<0>>)[1] ELSE 0

\* the dictionary appended to results for one row
ResultRow(row) ==
    LET actual_base == calculate_base_fpl_points(row)
        expected_base == calculate_expected_base_fpl_points(row)
    IN  [ player_name |-> row["web_name"],
          position |-> row["position"],
          team_code |-> row["team_code"],
          match_id |-> row["match_id"],
          minutes_played |-> row["minutes_played"],
          goals |-> row["goals"],
          assists |-> row["assists"],
          xg |-> row["xg"],
          xa |-> row["xa"],
          saves |-> Get(row, "saves", 0),
          team_goals_conceded |-> row["team_goals_conceded"],
          clearances |-> Get(row, "clearances", 0),
          blocks |-> Get(row, "blocks", 0),
          interceptions |-> Get(row, "interceptions", 0),
          tackles_won |-> Get(row, "tackles_won", 0),
          recoveries |-> Get(row, "recoveries", 0),
          defensive_contributions_points |->
              calculate_defensive_contributions(row, row["position"]),
          actual_bonus_points |-> GetOrZero(row, "bonus"),
          bps_score |-> GetOrZero(row, "bps"),
          fpl_total_points |-> GetOrZero(row, "event_points"),
          fpl_defensive_contribution |-> GetOrZero(row, "defensive_contribution_fpl"),
          actual_base_points |-> actual_base,
          expected_base_points |-> expected_base,
          actual_total_points |-> calculate_actual_fpl_points_with_bonus(row),
          base_points_difference |-> XgDenominator * actual_base - expected_base ]

(***************************************************************************)
(* get_best_value_players                                                  *)
(***************************************************************************)
\* value / minutes * 90 on a pandas column
Per90(value, minutes) ==
    IF minutes # 0 THEN [kind |-> "finite", num |-> value * 90, den |-> minutes]
    ELSE IF value > 0 THEN [kind |-> "inf", num |-> 0, den |-> 0]
    ELSE IF value < 0 THEN [kind |-> "-inf", num |-> 0, den |-> 0]
    ELSE [kind |-> "nan", num |-> 0, den |-> 0]

\* a > b for two results of a division; nothing is greater or smaller than nan
GreaterValue(a, b) ==
    IF a.kind = "nan" \/ b.kind = "nan" THEN FALSE
    ELSE IF a.kind = "inf" THEN b.kind # "inf"
    ELSE IF a.kind = "-inf" THEN FALSE
    ELSE IF b.kind = "inf" THEN FALSE
    ELSE IF b.kind = "-inf" THEN TRUE
    ELSE a.num * b.den > b.num * a.den

\* rows sorted by a column in descending order, equal values in their
\* original order and nan last
RECURSIVE InsertByValue(_, _, _)
InsertByValue(row, rows, column) ==
    IF rows = << >> THEN <<row>>
    ELSE IF \/ GreaterValue(row[column], Head(rows)[column])
            \/ (Head(rows)[column].kind = "nan" /\ row[column].kind # "nan")
         THEN <<row>> \o rows
         ELSE <<Head(rows)>> \o InsertByValue(row, Tail(rows), column)

RECURSIVE SortedByValue(_, _)
SortedByValue(rows, column) ==
    IF rows = << >> THEN << >>
    ELSE InsertByValue(rows[Len(rows)],
                       SortedByValue(SubSeq(rows, 1, Len(rows) - 1), column), column)

Reverse(l) == [i \in DOMAIN l |-> l[Len(l) + 1 - i]]

nlargest_KeepLast(rows, top_n, column) ==
    LET sorted == SortedByValue(Reverse(rows), column)
    IN  SubSeq(sorted, 1, IF top_n < Len(sorted) THEN top_n ELSE Len(sorted))

\* results_df.nlargest(top_n, column) on a column of division results
nlargest(rows, top_n, column) ==
    LET sorted == SortedByValue(rows, column)
    IN  SubSeq(sorted, 1, IF top_n < Len(sorted) THEN top_n ELSE Len(sorted))

get_best_value_players(results_df, top_n) ==
    LET with_per_90 ==
            [i \in DOMAIN results_df |->
                [f \in DOMAIN results_df[i]
                        \cup {"actual_base_points_per_90", "expected_base_points_per_90"} |->
                    IF f = "actual_base_points_per_90"
                    THEN Per90(results_df[i].actual_base_points,
                               results_df[i].minutes_played)
                    ELSE IF f = "expected_base_points_per_90"
                    THEN Per90(results_df[i].expected_base_points,
                               results_df[i].minutes_played)
                    ELSE results_df[i][f]]]
    IN  nlargest(with_per_90, top_n, "expected_base_points_per_90")

(***************************************************************************)
(* get_top_performers and the two selections that end print_analysis       *)
(***************************************************************************)
\* a finite number of a pandas column, as the result of a division by one
Finite(value) == [kind |-> "finite", num |-> value, den |-> 1]

\* results_df.nlargest(top_n, column) on a column of finite numbers
nlargest_finite(rows, top_n, column) ==
    LET keyed == [i \in DOMAIN rows |->
                     [row |-> rows[i], key |-> Finite(rows[i][column])]]
        largest == nlargest(keyed, top_n, "key")
    IN  [k \in DOMAIN largest |-> largest[k].row]

get_top_performers(results_df, metric, top_n) ==
    nlargest_finite(results_df, top_n, metric)

Overperforming_Inclusive(results_df) ==
    SelectSeq(results_df,
              LAMBDA row : 2 * row.base_points_difference >= XgDenominator)

\* results_df[results_df['base_points_difference'] > 0.5]; the column holds
\* numerators over XgDenominator
Overperforming(results_df) ==
    SelectSeq(results_df,
              LAMBDA row : 2 * row.base_points_difference > XgDenominator)

\* results_df[results_df['base_points_difference'] < -0.5]
Underperforming(results_df) ==
    SelectSeq(results_df,
              LAMBDA row : 2 * row.base_points_difference < -XgDenominator)

(***************************************************************************)
(* The objects of the automation scripts as their constructors leave them. *)
(***************************************************************************)
\* FullUpdateAutomation.__init__: self.update_summary (start_time left out)
InitialUpdateSummary ==
    [ github_updated |-> FALSE,
      draft_updated |-> FALSE,
      database_updated |-> FALSE,
      errors |-> << >>,
      steps_completed |-> << >> ]

\* the tables import_season_data writes, in the order it fills them
SeasonTables == <<"teams", "players", "matches", "playermatchstats">>

TableNames == { SeasonTables[i] : i \in DOMAIN SeasonTables }

\* DatabaseIngester.__init__: self.import_summary; a count is << >> while the
\* dictionary has no entry for the table
InitialImportSummary ==
    [ season_data |-> [t \in TableNames |-> << >>],
      errors |-> << >> ]

EmptyTables == [t \in TableNames |-> << >>]

\* no report is printed
NoReport ==
    /\ requested_metric = "actual_total_points"
    /\ requested_n = 20
    /\ top_performers = << >>
    /\ overperformers = << >>
    /\ underperformers = << >>

\* the automation is not run
NoAutomation ==
    /\ update_summary = InitialUpdateSummary
    /\ updates_available = FALSE
    /\ log = << >>
    /\ players_count = 0
    /\ return_value = << >>

\* nothing is ingested
NoIngestion ==
    /\ season_data = [t \in TableNames |-> << >>]
    /\ tables = EmptyTables
    /\ transaction = << >>
    /\ import_summary = InitialImportSummary
    /\ imported = << >>

\* no batch is analysed
NoBatch ==
    /\ df = << >>
    /\ playerstats_df = << >>
    /\ min_minutes = 30
    /\ df_filtered = << >>
    /\ results = << >>
    /\ best_value = << >>

\* no BPS ranking is asked for
NoRanking ==
    /\ player_bps = 0
    /\ match_players_bps = << >>
    /\ expected_bonus_points = 0

Init ==
    /\ player_stats \in PlayerMatchRecords
    /\ InitResults
    /\ NoRanking
    /\ NoBatch
    /\ NoReport
    /\ NoAutomation
    /\ NoIngestion

InitMissing ==
    /\ player_stats \in MissingFieldRecords
    /\ InitResults
    /\ NoRanking
    /\ NoBatch
    /\ NoReport
    /\ NoAutomation
    /\ NoIngestion

CalculateBase_ConsumesGoals ==
    /\ pc = "start"
    /\ actual_base_points' = calculate_base_fpl_points(player_stats)
    /\ pc' = "base"
    /\ player_stats' = [f \in DOMAIN player_stats |->
                            IF f = "goals" THEN 0 ELSE player_stats[f]]
    /\ UNCHANGED <<expected_base_points, actual_total_points, defensive_points>>
    /\ UNCHANGED <<bonus_vars, batch_vars, other_vars>>

CalculateBase ==
    /\ pc = "start"
    /\ actual_base_points' = calculate_base_fpl_points(player_stats)
    /\ pc' = "base"
    /\ UNCHANGED <<player_stats, expected_base_points, actual_total_points,
                   defensive_points>>
    /\ UNCHANGED <<bonus_vars, batch_vars, other_vars>>

CalculateExpected ==
    /\ pc = "base"
    /\ expected_base_points' = calculate_expected_base_fpl_points(player_stats)
    /\ pc' = "expected"
    /\ UNCHANGED <<player_stats, actual_base_points, actual_total_points,
                   defensive_points>>
    /\ UNCHANGED <<bonus_vars, batch_vars, other_vars>>

CalculateTotal ==
    /\ pc = "expected"
    /\ actual_total_points' = calculate_actual_fpl_points_with_bonus(player_stats)
    /\ pc' = "total"
    /\ UNCHANGED <<player_stats, actual_base_points, expected_base_points,
                   defensive_points>>
    /\ UNCHANGED <<bonus_vars, batch_vars, other_vars>>

CalculateDefensive ==
    /\ pc = "total"
    /\ defensive_points' =
           calculate_defensive_contributions(player_stats, player_stats["position"])
    /\ pc' = "done"
    /\ UNCHANGED <<player_stats, actual_base_points, expected_base_points,
                   actual_total_points>>
    /\ UNCHANGED <<bonus_vars, batch_vars, other_vars>>

Next == CalculateBase \/ CalculateExpected \/ CalculateTotal \/ CalculateDefensive

Spec == Init /\ [][Next]_vars

\* the same scoring steps on records that lack optional fields
SpecMissing == InitMissing /\ [][Next]_vars

(***************************************************************************)
(* The bonus ranking of one player in one match.                           *)
(***************************************************************************)
BpsScores == {10, 20, 40, 50}

\* the lists of at most MaxMatchPlayers scores
BpsLists == UNION { [1..n -> BpsScores] : n \in 0..MaxMatchPlayers }

InitBonus ==
    /\ player_bps \in BpsScores \cup {0}
    /\ match_players_bps \in {<< >>} \cup { <<l>> : l \in BpsLists }
    /\ expected_bonus_points = 0
    /\ player_stats = EmptyRecord("Forward", 0)
    /\ pc = "rank"
    /\ actual_base_points = 0
    /\ expected_base_points = 0
    /\ actual_total_points = 0
    /\ defensive_points = 0
    /\ NoBatch
    /\ NoReport
    /\ NoAutomation
    /\ NoIngestion

CalculateExpectedBonus ==
    /\ pc = "rank"
    /\ expected_bonus_points'
           = calculate_expected_bonus_points(player_bps, match_players_bps)
    /\ pc' = "ranked"
    /\ UNCHANGED <<player_bps, match_players_bps>>
    /\ UNCHANGED <<player_stats, actual_base_points, expected_base_points,
                   actual_total_points, defensive_points>>
    /\ UNCHANGED <<batch_vars, other_vars>>

NextBonus == CalculateExpectedBonus

SpecBonus == InitBonus /\ [][NextBonus]_vars

(***************************************************************************)
(* analyze_players on a batch, then get_best_value_players on its result.  *)
(***************************************************************************)
\* a row of the query of load_player_stats
BatchRow(name, minutes, xg) ==
    [f \in DOMAIN EmptyRecord("Forward", minutes)
            \cup {"web_name", "team_code", "match_id"} |->
        IF f = "web_name" THEN name
        ELSE IF f = "team_code" THEN 1
        ELSE IF f = "match_id" THEN 1
        ELSE IF f = "position" THEN (IF name = "Salah" THEN "Midfielder" ELSE "Forward")
        ELSE IF f = "xg" THEN xg
        ELSE EmptyRecord("Forward", minutes)[f]]

BatchRows ==
    { BatchRow(name, minutes, xg)
        : name \in {"Salah", "Haaland"}, minutes \in {0, 29, 30}, xg \in {0, 1} }

\* the columns a frame may lack
MissingColumns == { {}, {"xg"}, {"goals"} }

\* the frames of at most MaxBatch rows, every row over the same columns
Batches ==
    { [i \in DOMAIN rows |-> Without(rows[i], missing)]
        : rows \in UNION { [1..n -> BatchRows] : n \in 0..MaxBatch },
          missing \in MissingColumns }

\* a row of a playerstats.csv file
StatsRow(name, gw, bonus) ==
    [ web_name |-> name, gw |-> gw, bonus |-> <<bonus>>, bps |-> <<10 * bonus>>,
      event_points |-> <<2 + bonus>>, defensive_contribution |-> <<0>> ]

PlayerstatsTables ==
    { << >>,
      << StatsRow("Salah", 1, 3) >>,
      << StatsRow("Salah", 1, 3), StatsRow("Salah", 1, 1) >>,
      << StatsRow("Salah", 2, 3) >>,
      << StatsRow("Haaland", 1, 2), StatsRow("Salah", 1, 3) >> }

InitBatch ==
    /\ df \in Batches
    /\ playerstats_df \in PlayerstatsTables
    /\ min_minutes \in {0, 30}
    /\ df_filtered = << >>
    /\ results = << >>
    /\ best_value = << >>
    /\ pc = "loaded"
    /\ player_stats = EmptyRecord("Forward", 0)
    /\ actual_base_points = 0
    /\ expected_base_points = 0
    /\ actual_total_points = 0
    /\ defensive_points = 0
    /\ NoRanking
    /\ NoReport
    /\ NoAutomation
    /\ NoIngestion

\* if df.empty: return None
ReturnNone ==
    /\ pc = "loaded"
    /\ df = << >>
    /\ pc' = "returned_none"
    /\ UNCHANGED <<df, playerstats_df, min_minutes, df_filtered, results, best_value>>
    /\ UNCHANGED <<player_stats, actual_base_points, expected_base_points,
                   actual_total_points, defensive_points, bonus_vars,
                   other_vars>>

MergeWithPlayerstats ==
    /\ pc = "loaded"
    /\ df # << >>
    /\ df' = merge_with_playerstats(df, playerstats_df)
    /\ pc' = "merged"
    /\ UNCHANGED <<playerstats_df, min_minutes, df_filtered, results, best_value>>
    /\ UNCHANGED <<player_stats, actual_base_points, expected_base_points,
                   actual_total_points, defensive_points, bonus_vars,
                   other_vars>>

FilterPlayers ==
    /\ pc = "merged"
    /\ df_filtered' = FilterMinutes(df, min_minutes)
    /\ results' = << >>
    /\ pc' = "loop"
    /\ UNCHANGED <<df, playerstats_df, min_minutes, best_value>>
    /\ UNCHANGED <<player_stats, actual_base_points, expected_base_points,
                   actual_total_points, defensive_points, bonus_vars,
                   other_vars>>

\* one iteration of the loop; a missing indexed column raises KeyError, which
\* nothing in analyze_players catches
AnalyzeRow ==
    /\ pc = "loop"
    /\ Len(results) < Len(df_filtered)
    /\ LET row == df_filtered[Len(results) + 1]
       IN  IF IndexedColumns \subseteq DOMAIN row
           THEN /\ results' = Append(results, ResultRow(row))
                /\ pc' = "loop"
           ELSE /\ results' = results
                /\ pc' = "raised"
    /\ UNCHANGED <<df, playerstats_df, min_minutes, df_filtered, best_value>>
    /\ UNCHANGED <<player_stats, actual_base_points, expected_base_points,
                   actual_total_points, defensive_points, bonus_vars,
                   other_vars>>

\* results_df = pd.DataFrame(results); return results_df
ReturnResults ==
    /\ pc = "loop"
    /\ Len(results) = Len(df_filtered)
    /\ pc' = "returned"
    /\ UNCHANGED <<df, playerstats_df, min_minutes, df_filtered, results, best_value>>
    /\ UNCHANGED <<player_stats, actual_base_points, expected_base_points,
                   actual_total_points, defensive_points, bonus_vars,
                   other_vars>>

\* print_analysis: best_value = self.get_best_value_players(results_df, 10)
GetBestValuePlayers ==
    /\ pc = "returned"
    /\ best_value' = get_best_value_players(results, 10)
    /\ pc' = "best_value"
    /\ UNCHANGED <<df, playerstats_df, min_minutes, df_filtered, results>>
    /\ UNCHANGED <<player_stats, actual_base_points, expected_base_points,
                   actual_total_points, defensive_points, bonus_vars,
                   other_vars>>

NextBatch ==
    \/ ReturnNone
    \/ MergeWithPlayerstats
    \/ FilterPlayers
    \/ AnalyzeRow
    \/ ReturnResults
    \/ GetBestValuePlayers

SpecBatch == InitBatch /\ [][NextBatch]_vars

(***************************************************************************)
(* print_analysis on the frame analyze_players returned: one call of        *)
(* get_top_performers, then the over-performers and the under-performers.   *)
(***************************************************************************)
ReportTopN == 10
MaxReport == 3
CrowdedRows == 11

\* player-match records on both sides of the band around a difference of 0
Steady == EmptyRecord("Forward", 90)

CleanSheet == EmptyRecord("Defender", 90)

EdgeOver == [EmptyRecord("Midfielder", 90) EXCEPT !.assists = 1, !.xg = 1]

EdgeUnder == [EmptyRecord("Midfielder", 90) EXCEPT !.goals = 1, !.xg = 1, !.xa = 2]

Scorer == [EmptyRecord("Forward", 30) EXCEPT !.goals = 1]

Provider == [EmptyRecord("Defender", 90) EXCEPT !.assists = 1, !.xa = 1]

Unlucky == [EmptyRecord("Forward", 90) EXCEPT !.xg = 2]

Wasteful == [EmptyRecord("Defender", 90) EXCEPT !.goals = 1, !.xg = 2, !.xa = 2]

ReportProfiles ==
    { Steady, CleanSheet, EdgeOver, EdgeUnder, Scorer, Provider, Unlucky, Wasteful }

\* the row of the query of load_player_stats for the match_id-th record
ReportRow(profile, match_id) ==
    [f \in DOMAIN profile \cup {"web_name", "team_code", "match_id"} |->
        IF f = "web_name" THEN "Salah"
        ELSE IF f = "team_code" THEN 1
        ELSE IF f = "match_id" THEN match_id
        ELSE profile[f]]

\* a frame with more over-performers and more under-performers than a list shows
CrowdedFrame ==
    [i \in 1..(2 * CrowdedRows + 2) |->
        ReportRow(IF i = 2 * CrowdedRows + 2 THEN EdgeUnder
                  ELSE IF i = 2 * CrowdedRows + 1 THEN EdgeOver
                  ELSE IF i > CrowdedRows
                  THEN (IF i % 2 = 0 THEN Unlucky ELSE Wasteful)
                  ELSE (IF i % 2 = 0 THEN Scorer ELSE Provider), i)]

\* the frames of one to MaxReport records, and the crowded one
ReportFrames ==
    { [i \in DOMAIN profiles |-> ReportRow(profiles[i], i)]
        : profiles \in UNION { [1..n -> ReportProfiles] : n \in 1..MaxReport } }
    \cup { CrowdedFrame }

\* the metrics print_analysis asks get_top_performers for
Metrics == { "actual_total_points", "actual_base_points", "expected_base_points" }

TopCounts == { 0, 1, 2, ReportTopN }

InitReport ==
    /\ df \in ReportFrames
    /\ playerstats_df = << >>
    /\ min_minutes = 30
    /\ df_filtered = FilterMinutes(df, min_minutes)
    /\ results = [i \in DOMAIN df_filtered |-> ResultRow(df_filtered[i])]
    /\ best_value = << >>
    /\ pc = "report"
    /\ player_stats = EmptyRecord("Forward", 0)
    /\ actual_base_points = 0
    /\ expected_base_points = 0
    /\ actual_total_points = 0
    /\ defensive_points = 0
    /\ NoRanking
    /\ NoReport
    /\ NoAutomation
    /\ NoIngestion

GetTopPerformers ==
    /\ pc = "report"
    /\ \E m \in Metrics, n \in TopCounts :
          /\ requested_metric' = m
          /\ requested_n' = n
          /\ top_performers' = get_top_performers(results, m, n)
    /\ pc' = "top"
    /\ UNCHANGED <<overperformers, underperformers>>
    /\ UNCHANGED <<player_stats, actual_base_points, expected_base_points,
                   actual_total_points, defensive_points, bonus_vars, batch_vars,
                   automation_vars, ingestion_vars>>

\* results_df[...> 0.5].nlargest(10, 'actual_base_points')
SelectOverperformers ==
    /\ pc = "top"
    /\ overperformers'
           = nlargest_finite(Overperforming(results), ReportTopN, "actual_base_points")
    /\ pc' = "over"
    /\ UNCHANGED <<requested_metric, requested_n, top_performers, underperformers>>
    /\ UNCHANGED <<player_stats, actual_base_points, expected_base_points,
                   actual_total_points, defensive_points, bonus_vars, batch_vars,
                   automation_vars, ingestion_vars>>

\* results_df[...< -0.5].nlargest(10, 'expected_base_points')
SelectUnderperformers ==
    /\ pc = "over"
    /\ underperformers'
           = nlargest_finite(Underperforming(results), ReportTopN,
                             "expected_base_points")
    /\ pc' = "under"
    /\ UNCHANGED <<requested_metric, requested_n, top_performers, overperformers>>
    /\ UNCHANGED <<player_stats, actual_base_points, expected_base_points,
                   actual_total_points, defensive_points, bonus_vars, batch_vars,
                   automation_vars, ingestion_vars>>

NextReport == GetTopPerformers \/ SelectOverperformers \/ SelectUnderperformers

SpecReport == InitReport /\ [][NextReport]_vars

(***************************************************************************)
(* full_update_automation.py: run_full_automation.  The log is the         *)
(* sequence of the lines self.log writes that name a step or a failure;    *)
(* the outcome of each command the script runs is chosen by the            *)
(* environment.  A method is an operator from update_summary and the       *)
(* outcomes to [summary, returned, logged].                                *)
(***************************************************************************)
\* the decimal digits of n, as psql prints a count
RECURSIVE Digits(_)
Digits(n) == IF n < 10 THEN <<n>> ELSE Digits(n \div 10) \o <<n % 10>>

\* the numbers of rows the players table may hold
PlayerCounts == {0, 7, 10, 25, 804}

WithError(summary, error) ==
    [summary EXCEPT !.errors = Append(@, error)]

WithStep(summary, step) ==
    [summary EXCEPT !.steps_completed = Append(@, step)]

check_prerequisites(git_exists, connected) ==
    IF ~git_exists
    THEN [ returned |-> FALSE,
           logged |-> << "=== Checking Prerequisites ===", "Not in a git repository" >> ]
    ELSE IF ~connected
    THEN [ returned |-> FALSE,
           logged |-> << "=== Checking Prerequisites ===", "Database connection failed" >> ]
    ELSE [ returned |-> TRUE,
           logged |-> << "=== Checking Prerequisites ===",
                         "All prerequisites check passed" >> ]

check_for_github_updates(fetched, compared, new_commits) ==
    IF ~fetched
    THEN [ returned |-> FALSE,
           logged |-> << "=== Checking for GitHub Updates from Upstream Fork ===",
                         "Failed to fetch from upstream fork" >> ]
    ELSE IF compared /\ new_commits
    THEN [ returned |-> TRUE,
           logged |-> << "=== Checking for GitHub Updates from Upstream Fork ===",
                         "Updates available from upstream fork" >> ]
    ELSE IF compared
    THEN [ returned |-> FALSE,
           logged |-> << "=== Checking for GitHub Updates from Upstream Fork ===",
                         "Repository is up to date with upstream" >> ]
    ELSE [ returned |-> FALSE,
           logged |-> << "=== Checking for GitHub Updates from Upstream Fork ===",
                         "Unable to determine update status" >> ]

pull_github_updates_IgnoresFailure(summary, local_changes, stashed, merged_main, merged_master) ==
    IF local_changes /\ ~stashed
    THEN [ summary |-> summary, returned |-> TRUE,
           logged |-> << "=== Pulling GitHub Updates from Upstream ===",
                         "Failed to stash changes" >> ]
    ELSE IF merged_main \/ merged_master
    THEN [ summary |-> WithStep([summary EXCEPT !.github_updated = TRUE],
                                "Upstream Update"),
           returned |-> TRUE,
           logged |-> << "=== Pulling GitHub Updates from Upstream ===",
                         "Successfully merged latest changes from upstream" >> ]
    ELSE [ summary |-> WithError(summary, "Upstream merge failed"),
           returned |-> TRUE,
           logged |-> << "=== Pulling GitHub Updates from Upstream ===",
                         "Failed to merge upstream updates" >> ]

pull_github_updates(summary, local_changes, stashed, merged_main, merged_master) ==
    IF local_changes /\ ~stashed
    THEN [ summary |-> summary, returned |-> FALSE,
           logged |-> << "=== Pulling GitHub Updates from Upstream ===",
                         "Failed to stash changes" >> ]
    ELSE IF merged_main \/ merged_master
    THEN [ summary |-> WithStep([summary EXCEPT !.github_updated = TRUE],
                                "Upstream Update"),
           returned |-> TRUE,
           logged |-> << "=== Pulling GitHub Updates from Upstream ===",
                         "Successfully merged latest changes from upstream" >> ]
    ELSE [ summary |-> WithError(summary, "Upstream merge failed"),
           returned |-> FALSE,
           logged |-> << "=== Pulling GitHub Updates from Upstream ===",
                         "Failed to merge upstream updates" >> ]

update_draft_league_data_FailsTheRun(summary, script_exists, success) ==
    IF ~script_exists
    THEN [ summary |-> summary, returned |-> TRUE,
           logged |-> << "=== Updating Draft League Data ===",
                         "Draft league fetch script not found, skipping" >> ]
    ELSE IF success
    THEN [ summary |-> WithStep([summary EXCEPT !.draft_updated = TRUE],
                                "Draft League Update"),
           returned |-> TRUE,
           logged |-> << "=== Updating Draft League Data ===",
                         "Successfully updated draft league data" >> ]
    ELSE [ summary |-> WithError(summary, "Draft league update failed"),
           returned |-> FALSE,
           logged |-> << "=== Updating Draft League Data ===",
                         "Failed to update draft league data" >> ]

update_draft_league_data(summary, script_exists, success) ==
    IF ~script_exists
    THEN [ summary |-> summary, returned |-> TRUE,
           logged |-> << "=== Updating Draft League Data ===",
                         "Draft league fetch script not found, skipping" >> ]
    ELSE IF success
    THEN [ summary |-> WithStep([summary EXCEPT !.draft_updated = TRUE],
                                "Draft League Update"),
           returned |-> TRUE,
           logged |-> << "=== Updating Draft League Data ===",
                         "Successfully updated draft league data" >> ]
    ELSE [ summary |-> WithError(summary, "Draft league update failed"),
           returned |-> TRUE,
           logged |-> << "=== Updating Draft League Data ===",
                         "Failed to update draft league data" >> ]

update_database(summary, script_exists, success) ==
    IF ~script_exists
    THEN [ summary |-> summary, returned |-> FALSE,
           logged |-> << "=== Updating Database ===",
                         "Database ingestion script not found" >> ]
    ELSE IF success
    THEN [ summary |-> WithStep([summary EXCEPT !.database_updated = TRUE],
                                "Database Update"),
           returned |-> TRUE,
           logged |-> << "=== Updating Database ===", "Successfully updated database" >> ]
    ELSE [ summary |-> WithError(summary, "Database update failed"),
           returned |-> FALSE,
           logged |-> << "=== Updating Database ===", "Failed to update database" >> ]

resync_metabase(summary, script_exists, success) ==
    IF ~script_exists
    THEN [ summary |-> summary, returned |-> TRUE,
           logged |-> << "=== Resyncing Metabase ===",
                         "Metabase resync script not found, skipping" >> ]
    ELSE IF success
    THEN [ summary |-> WithStep(summary, "Metabase Resync"), returned |-> TRUE,
           logged |-> << "=== Resyncing Metabase ===",
                         "Successfully triggered Metabase resync" >> ]
    ELSE [ summary |-> WithError(summary, "Metabase resync failed"), returned |-> TRUE,
           logged |-> << "=== Resyncing Metabase ===", "Failed to resync Metabase" >> ]

InitAutomation ==
    /\ update_summary = InitialUpdateSummary
    /\ updates_available = FALSE
    /\ log = << >>
    /\ players_count \in PlayerCounts
    /\ return_value = << >>
    /\ pc = "prerequisites"
    /\ player_stats = EmptyRecord("Forward", 0)
    /\ actual_base_points = 0
    /\ expected_base_points = 0
    /\ actual_total_points = 0
    /\ defensive_points = 0
    /\ NoRanking
    /\ NoBatch
    /\ NoReport
    /\ NoIngestion

\* return b inside the try block: the finally clause runs before the caller
\* gets b
Return(b) ==
    /\ return_value' = <<b>>
    /\ pc' = "finally"

\* Step 1
CheckPrerequisites_ReturnsAtOnce ==
    /\ pc = "prerequisites"
    /\ \E git_exists, connected \in BOOLEAN :
          LET call == check_prerequisites(git_exists, connected)
          IN  /\ log' = log \o call.logged
              /\ IF ~call.returned
                 THEN return_value' = <<FALSE>> /\ pc' = "exit"
                 ELSE pc' = "check_updates" /\ UNCHANGED return_value
    /\ UNCHANGED <<update_summary, updates_available, players_count>>
    /\ UNCHANGED <<player_stats, actual_base_points, expected_base_points,
                   actual_total_points, defensive_points, bonus_vars, batch_vars,
                   report_vars, ingestion_vars>>

CheckPrerequisites ==
    /\ pc = "prerequisites"
    /\ \E git_exists, connected \in BOOLEAN :
          LET call == check_prerequisites(git_exists, connected)
          IN  /\ log' = log \o call.logged
              /\ IF ~call.returned
                 THEN Return(FALSE)
                 ELSE pc' = "check_updates" /\ UNCHANGED return_value
    /\ UNCHANGED <<update_summary, updates_available, players_count>>
    /\ UNCHANGED <<player_stats, actual_base_points, expected_base_points,
                   actual_total_points, defensive_points, bonus_vars, batch_vars,
                   report_vars, ingestion_vars>>

\* Step 2
CheckForGithubUpdates ==
    /\ pc = "check_updates"
    /\ \E fetched, compared, new_commits \in BOOLEAN :
          LET call == check_for_github_updates(fetched, compared, new_commits)
          IN  /\ log' = log \o call.logged
              /\ updates_available' = call.returned
              /\ pc' = IF call.returned THEN "pull" ELSE "draft"
    /\ UNCHANGED <<update_summary, players_count, return_value>>
    /\ UNCHANGED <<player_stats, actual_base_points, expected_base_points,
                   actual_total_points, defensive_points, bonus_vars, batch_vars,
                   report_vars, ingestion_vars>>

\* Step 3
PullGithubUpdates ==
    /\ pc = "pull"
    /\ \E local_changes, stashed, merged_main, merged_master \in BOOLEAN :
          LET call == pull_github_updates(update_summary, local_changes, stashed,
                                          merged_main, merged_master)
          IN  /\ log' = log \o call.logged
              /\ update_summary' = call.summary
              /\ IF ~call.returned
                 THEN Return(FALSE)
                 ELSE pc' = "draft" /\ UNCHANGED return_value
    /\ UNCHANGED <<updates_available, players_count>>
    /\ UNCHANGED <<player_stats, actual_base_points, expected_base_points,
                   actual_total_points, defensive_points, bonus_vars, batch_vars,
                   report_vars, ingestion_vars>>

\* Step 4: the value update_draft_league_data returns is not looked at
UpdateDraftLeagueData ==
    /\ pc = "draft"
    /\ \E script_exists, success \in BOOLEAN :
          LET call == update_draft_league_data(update_summary, script_exists, success)
          IN  /\ log' = log \o call.logged
              /\ update_summary' = call.summary
    /\ pc' = "database"
    /\ UNCHANGED <<updates_available, players_count, return_value>>
    /\ UNCHANGED <<player_stats, actual_base_points, expected_base_points,
                   actual_total_points, defensive_points, bonus_vars, batch_vars,
                   report_vars, ingestion_vars>>

\* Step 5: success and "0" in output, output being what psql prints for
\* SELECT COUNT(*) FROM players
UpdateDatabase ==
    /\ pc = "database"
    /\ \E counted, script_exists, success \in BOOLEAN :
          LET call == update_database(update_summary, script_exists, success)
          IN  IF \/ updates_available
                 \/ update_summary.draft_updated
                 \/ (counted /\ Contains(Digits(players_count), 0))
              THEN /\ log' = log \o call.logged
                   /\ update_summary' = call.summary
                   /\ IF ~call.returned
                      THEN Return(FALSE)
                      ELSE pc' = "summary" /\ UNCHANGED return_value
              ELSE /\ log' = Append(log, "Database is up to date, no update needed")
                   /\ pc' = "summary"
                   /\ UNCHANGED <<update_summary, return_value>>
    /\ UNCHANGED <<updates_available, players_count>>
    /\ UNCHANGED <<player_stats, actual_base_points, expected_base_points,
                   actual_total_points, defensive_points, bonus_vars, batch_vars,
                   report_vars, ingestion_vars>>

\* Step 6
GetDatabaseSummary ==
    /\ pc = "summary"
    /\ log' = Append(log, "=== Database Summary ===")
    /\ pc' = "metabase"
    /\ UNCHANGED <<update_summary, updates_available, players_count, return_value>>
    /\ UNCHANGED <<player_stats, actual_base_points, expected_base_points,
                   actual_total_points, defensive_points, bonus_vars, batch_vars,
                   report_vars, ingestion_vars>>

\* Step 7, then return True
ResyncMetabase ==
    /\ pc = "metabase"
    /\ \E script_exists, success \in BOOLEAN :
          LET call == resync_metabase(update_summary, script_exists, success)
          IN  IF update_summary.database_updated
              THEN /\ log' = log \o call.logged
                   /\ update_summary' = call.summary
              ELSE UNCHANGED <<log, update_summary>>
    /\ Return(TRUE)
    /\ UNCHANGED <<updates_available, players_count>>
    /\ UNCHANGED <<player_stats, actual_base_points, expected_base_points,
                   actual_total_points, defensive_points, bonus_vars, batch_vars,
                   report_vars, ingestion_vars>>

\* a statement of the try block raises an Exception before the next step
RaiseException ==
    /\ pc \in { "prerequisites", "check_updates", "pull", "draft", "database",
                "summary", "metabase" }
    /\ pc' = "except"
    /\ UNCHANGED automation_vars
    /\ UNCHANGED <<player_stats, actual_base_points, expected_base_points,
                   actual_total_points, defensive_points, bonus_vars, batch_vars,
                   report_vars, ingestion_vars>>

\* except Exception as e
HandleException ==
    /\ pc = "except"
    /\ log' = Append(log, "Unexpected error in automation")
    /\ update_summary' = WithError(update_summary, "Unexpected error")
    /\ Return(FALSE)
    /\ UNCHANGED <<updates_available, players_count>>
    /\ UNCHANGED <<player_stats, actual_base_points, expected_base_points,
                   actual_total_points, defensive_points, bonus_vars, batch_vars,
                   report_vars, ingestion_vars>>

\* finally: self.print_final_summary(), and the caller gets return_value
PrintFinalSummary ==
    /\ pc = "finally"
    /\ log' = Append(log, "FULL UPDATE AUTOMATION SUMMARY")
    /\ pc' = "exit"
    /\ UNCHANGED <<update_summary, updates_available, players_count, return_value>>
    /\ UNCHANGED <<player_stats, actual_base_points, expected_base_points,
                   actual_total_points, defensive_points, bonus_vars, batch_vars,
                   report_vars, ingestion_vars>>

NextAutomation ==
    \/ CheckPrerequisites
    \/ CheckForGithubUpdates
    \/ PullGithubUpdates
    \/ UpdateDraftLeagueData
    \/ UpdateDatabase
    \/ GetDatabaseSummary
    \/ ResyncMetabase
    \/ RaiseException
    \/ HandleException
    \/ PrintFinalSummary

SpecAutomation == InitAutomation /\ [][NextAutomation]_vars

(***************************************************************************)
(* database_ingestion.py: import_season_data.  tables is what the database *)
(* holds committed; transaction is << >> while the connection has no open  *)
(* transaction and <<t>> while it has one in which the tables read t.      *)
(* psycopg2 opens the transaction at the first execute and the script      *)
(* never turns autocommit on.  A row is [key, value], key being the column *)
(* of the ON CONFLICT clause.  season_data[t] is << >> when the dictionary  *)
(* has no file for t and <<rows>> when its file holds rows.                *)
(***************************************************************************)
MaxCsvRows == 2
MaxCsvKey == 2

CsvRow(key) == [key |-> key, value |-> "csv"]

StoredRow(key) == [key |-> key, value |-> "stored"]

\* the contents of a CSV file
CsvFiles == UNION { [1..n -> { CsvRow(k) : k \in 1..MaxCsvKey }] : n \in 0..MaxCsvRows }

\* the dictionaries find_latest_season_data may return
SeasonData ==
    { [t \in TableNames |-> IF t \in present THEN <<rows>> ELSE << >>]
        : present \in SUBSET TableNames, rows \in CsvFiles }

\* the tables before the call: empty, or filled by an earlier import
StoredTables ==
    { EmptyTables,
      [t \in TableNames |-> << StoredRow(1) >>],
      [t \in TableNames |-> << StoredRow(1), StoredRow(MaxCsvKey) >>] }

\* INSERT ... ON CONFLICT (key) DO UPDATE
Upsert(rows, row) ==
    IF \E i \in DOMAIN rows : rows[i].key = row.key
    THEN [i \in DOMAIN rows |-> IF rows[i].key = row.key THEN row ELSE rows[i]]
    ELSE Append(rows, row)

\* INSERT into playermatchstats: no conflict clause, the key is a serial id
Insert(rows, row) == Append(rows, row)

\* the for loop over the first n rows of the file of table t
RECURSIVE InsertRows(_, _, _, _)
InsertRows(working, t, rows, n) ==
    IF n = 0 THEN working
    ELSE LET before == InsertRows(working, t, rows, n - 1)
         IN  [before EXCEPT ![t] = IF t = "playermatchstats"
                                   THEN Insert(@, rows[n])
                                   ELSE Upsert(@, rows[n])]

\* the position after the block of table t
AfterTable(t) ==
    IF t = "teams" THEN "players"
    ELSE IF t = "players" THEN "matches"
    ELSE IF t = "matches" THEN "playermatchstats"
    ELSE "commit"

InitIngestion ==
    /\ season_data \in SeasonData
    /\ tables \in StoredTables
    /\ transaction = << >>
    /\ import_summary = InitialImportSummary
    /\ imported = << >>
    /\ pc = "import"
    /\ player_stats = EmptyRecord("Forward", 0)
    /\ actual_base_points = 0
    /\ expected_base_points = 0
    /\ actual_total_points = 0
    /\ defensive_points = 0
    /\ NoRanking
    /\ NoBatch
    /\ NoReport
    /\ NoAutomation

\* if not season_data: return False; conn = self.get_db_connection();
\* if not conn: return False
Connect ==
    /\ pc = "import"
    /\ \E connected \in BOOLEAN :
          IF (\A t \in TableNames : season_data[t] = << >>) \/ ~connected
          THEN imported' = <<FALSE>> /\ pc' = "imported"
          ELSE imported' = imported /\ pc' = "truncate"
    /\ UNCHANGED <<season_data, tables, transaction, import_summary>>
    /\ UNCHANGED <<player_stats, actual_base_points, expected_base_points,
                   actual_total_points, defensive_points, bonus_vars, batch_vars,
                   report_vars, automation_vars>>

Truncate_Autocommit ==
    /\ pc = "truncate"
    /\ tables' = EmptyTables
    /\ transaction' = << EmptyTables >>
    /\ pc' = "teams"
    /\ UNCHANGED <<season_data, import_summary, imported>>
    /\ UNCHANGED <<player_stats, actual_base_points, expected_base_points,
                   actual_total_points, defensive_points, bonus_vars, batch_vars,
                   report_vars, automation_vars>>

\* TRUNCATE TABLE playermatchstats, matches, players, teams CASCADE
Truncate ==
    /\ pc = "truncate"
    /\ transaction' = << EmptyTables >>
    /\ pc' = "teams"
    /\ UNCHANGED <<season_data, tables, import_summary, imported>>
    /\ UNCHANGED <<player_stats, actual_base_points, expected_base_points,
                   actual_total_points, defensive_points, bonus_vars, batch_vars,
                   report_vars, automation_vars>>

\* if t in season_data: read the file, insert its rows, record the count
ImportTable ==
    /\ pc \in TableNames
    /\ IF season_data[pc] # << >>
       THEN LET rows == season_data[pc][1]
            IN  /\ transaction' = << InsertRows(transaction[1], pc, rows, Len(rows)) >>
                /\ import_summary' =
                       [import_summary EXCEPT !.season_data[pc] = << Len(rows) >>]
       ELSE UNCHANGED <<transaction, import_summary>>
    /\ pc' = AfterTable(pc)
    /\ UNCHANGED <<season_data, tables, imported>>
    /\ UNCHANGED <<player_stats, actual_base_points, expected_base_points,
                   actual_total_points, defensive_points, bonus_vars, batch_vars,
                   report_vars, automation_vars>>

\* conn.commit(); return True
Commit ==
    /\ pc = "commit"
    /\ tables' = transaction[1]
    /\ transaction' = << >>
    /\ imported' = <<TRUE>>
    /\ pc' = "imported"
    /\ UNCHANGED <<season_data, import_summary>>
    /\ UNCHANGED <<player_stats, actual_base_points, expected_base_points,
                   actual_total_points, defensive_points, bonus_vars, batch_vars,
                   report_vars, automation_vars>>

\* a statement of the try block raises: the TRUNCATE, reading a file, an
\* INSERT after some rows of the file went in, or the commit
RaiseInImport ==
    /\ pc \in TableNames \cup {"truncate", "commit"}
    /\ IF pc \in TableNames /\ season_data[pc] # << >>
       THEN \E n \in 0..Len(season_data[pc][1]) :
               transaction' = << InsertRows(transaction[1], pc, season_data[pc][1], n) >>
       ELSE UNCHANGED transaction
    /\ pc' = "import_except"
    /\ UNCHANGED <<season_data, tables, import_summary, imported>>
    /\ UNCHANGED <<player_stats, actual_base_points, expected_base_points,
                   actual_total_points, defensive_points, bonus_vars, batch_vars,
                   report_vars, automation_vars>>

\* except Exception as e: record the error, conn.rollback(), return False
Rollback ==
    /\ pc = "import_except"
    /\ import_summary' =
           [import_summary EXCEPT !.errors = Append(@, "Season data import")]
    /\ transaction' = << >>
    /\ imported' = <<FALSE>>
    /\ pc' = "imported"
    /\ UNCHANGED <<season_data, tables>>
    /\ UNCHANGED <<player_stats, actual_base_points, expected_base_points,
                   actual_total_points, defensive_points, bonus_vars, batch_vars,
                   report_vars, automation_vars>>

NextIngestion ==
    \/ Connect
    \/ Truncate
    \/ ImportTable
    \/ Commit
    \/ RaiseInImport
    \/ Rollback

SpecIngestion == InitIngestion /\ [][NextIngestion]_vars

TypeOK ==
    /\ pc \in { "start", "base", "expected", "total", "done", "rank", "ranked",
                "loaded", "returned_none", "merged", "loop", "raised", "returned",
                "best_value", "report", "top", "over", "under",
                "prerequisites", "check_updates", "pull", "draft", "database",
                "summary", "metabase", "except", "finally", "exit",
                "import", "truncate", "teams", "players", "matches",
                "playermatchstats", "commit", "import_except", "imported" }
    /\ actual_base_points \in Int
    /\ expected_base_points \in Int
    /\ actual_total_points \in Int
    /\ defensive_points \in Int

(***************************************************************************)
(* Properties of the scoring rules.                                        *)
(***************************************************************************)
RecognizedPositions == DOMAIN SCORING_RULES.goal_points

\* the goal value and the clean-sheet value of the official rules
OfficialGoalValue(position) ==
    CASE position = "Goalkeeper" -> 6
      [] position = "Defender" -> 6
      [] position = "Midfielder" -> 5
      [] position = "Forward" -> 4

OfficialCleanSheetValue(position) ==
    CASE position = "Goalkeeper" -> 4
      [] position = "Defender" -> 4
      [] position = "Midfielder" -> 1
      [] position = "Forward" -> 0

\* n = floor(x / d) for x >= 0, d > 0, stated without division
IsFloorOf(n, x, d) == n \in 0..x /\ d * n <= x /\ x < d * (n + 1)

Cbit(ps) == ps.clearances + ps.blocks + ps.interceptions + ps.tackles_won

Cbirt(ps) == Cbit(ps) + ps.recoveries

\* C1: for a record with minutes_played < 1 the appearance, playing-time,
\* clean-sheet and saves contributions of both calculators are all 0, for
\* every position and every value of saves and team_goals_conceded.
C1_NoContributionWithoutMinutes ==
    (pc = "done" /\ player_stats.minutes_played < 1) =>
        /\ base_appearance(player_stats) = 0
        /\ base_playing_time(player_stats) = 0
        /\ base_clean_sheet(player_stats) = 0
        /\ base_saves(player_stats) = 0
        /\ expected_appearance(player_stats) = 0
        /\ expected_playing_time(player_stats) = 0
        /\ expected_clean_sheet(player_stats) = 0
        /\ expected_saves(player_stats) = 0

\* C2: in both calculators appearance + playing time is exactly 1 when
\* 1 <= minutes_played < 60 and exactly 2 when minutes_played >= 60; the
\* 60-minute rule is never added on top of the appearance point to give 3.
C2_AppearancePlayingTime ==
    LET m == player_stats.minutes_played
        base == base_appearance(player_stats) + base_playing_time(player_stats)
        expected == expected_appearance(player_stats) + expected_playing_time(player_stats)
    IN  /\ (1 <= m /\ m < 60) => (base = 1 /\ expected = 1)
        /\ m >= 60 => (base = 2 /\ expected = 2)
        /\ base # 3 /\ expected # 3

C2_Witness ==
    /\ pc = "done"
    /\ player_stats.minutes_played >= 60
    /\ player_stats = EmptyRecord("Forward", player_stats.minutes_played)
    /\ actual_base_points = 2
    /\ expected_base_points = 2 * XgDenominator

\* C3: calculate_defensive_contributions returns either exactly 0 or exactly
\* SCORING_RULES['defensive_contributions'] (2), for every position and every
\* combination of the five defensive counts.
C3_DefensiveBinary ==
    /\ calculate_defensive_contributions(player_stats, player_stats.position)
           \in {0, SCORING_RULES.defensive_contributions}
    /\ SCORING_RULES.defensive_contributions = 2
    /\ pc = "done" => defensive_points \in {0, 2}

C3_Witness ==
    /\ pc = "done"
    /\ player_stats.position = "Unknown"
    /\ Cbirt(player_stats) = 11
    /\ defensive_points = 0

C5_GoalsAndAssists ==
    player_stats.position \in RecognizedPositions =>
        LET goal_part == player_stats.goals * OfficialGoalValue(player_stats.position)
            assist_part == player_stats.assists * 3
            without == [player_stats EXCEPT !.goals = 0, !.assists = 0]
        IN  /\ base_goals(player_stats) = goal_part
            /\ base_assists(player_stats) = assist_part
            /\ \A m \in MinutesPlayed :
                   LET at_m == [player_stats EXCEPT !.minutes_played = m]
                   IN  /\ base_goals(at_m) = goal_part
                       /\ base_assists(at_m) = assist_part
            /\ pc # "start" =>
                   actual_base_points
                       = calculate_base_fpl_points(without) + goal_part + assist_part

C5_Witness ==
    /\ pc = "done"
    /\ player_stats.position = "Midfielder"
    /\ player_stats.minutes_played = 0
    /\ player_stats.goals = 2
    /\ player_stats.assists = 1
    /\ actual_base_points = 13

\* C6: in both calculators the clean-sheet points are added iff
\* team_goals_conceded = 0 and minutes_played >= 60, with value 4 for
\* Goalkeeper and Defender, 1 for Midfielder, 0 for Forward; both variants
\* add the same value for the same record.
C6_CleanSheet ==
    player_stats.position \in RecognizedPositions =>
        LET value == IF player_stats.team_goals_conceded = 0
                        /\ player_stats.minutes_played >= 60
                     THEN OfficialCleanSheetValue(player_stats.position)
                     ELSE 0
        IN  /\ base_clean_sheet(player_stats) = value
            /\ expected_clean_sheet(player_stats) = value

C6_Witness ==
    /\ pc = "done"
    /\ player_stats.minutes_played >= 60
    /\ player_stats = EmptyRecord("Defender", player_stats.minutes_played)
    /\ actual_base_points = 6
    /\ expected_base_points = 6 * XgDenominator

\* C7: in both calculators floor(team_goals_conceded / 2) points are
\* subtracted iff the position is Goalkeeper or Defender and
\* minutes_played >= 60; every other record loses nothing.
C7_GoalsConcededPenalty ==
    LET base_lost == -base_goals_conceded(player_stats)
        expected_lost == -expected_goals_conceded(player_stats)
    IN  IF player_stats.position \in {"Goalkeeper", "Defender"}
           /\ player_stats.minutes_played >= 60
        THEN /\ IsFloorOf(base_lost, player_stats.team_goals_conceded, 2)
             /\ IsFloorOf(expected_lost, player_stats.team_goals_conceded, 2)
        ELSE base_lost = 0 /\ expected_lost = 0

C7_Witness ==
    /\ pc = "done"
    /\ player_stats.team_goals_conceded = 3
    /\ player_stats
           = [EmptyRecord("Goalkeeper", FullMatch) EXCEPT !.team_goals_conceded = 3]
    /\ actual_base_points = 1

\* C8: in both calculators save points are floor(saves / 3) and are added
\* only for a Goalkeeper; for every other position the saves field has no
\* effect on the result.
C8_Saves ==
    IF player_stats.position = "Goalkeeper"
    THEN /\ IsFloorOf(base_saves(player_stats), player_stats.saves, 3)
         /\ IsFloorOf(expected_saves(player_stats), player_stats.saves, 3)
    ELSE /\ base_saves(player_stats) = 0
         /\ expected_saves(player_stats) = 0
         /\ \A s \in 0..MaxSaves :
                LET other == [player_stats EXCEPT !.saves = s]
                IN  /\ pc # "start" =>
                           actual_base_points = calculate_base_fpl_points(other)
                    /\ pc \in {"expected", "done"} =>
                           expected_base_points
                               = calculate_expected_base_fpl_points(other)

C8_Witness ==
    /\ pc = "done"
    /\ player_stats.position = "Defender"
    /\ player_stats.saves >= 3
    /\ player_stats.minutes_played = 1
    /\ player_stats.goals = 0
    /\ actual_base_points = 1

\* C9: in both calculators the penalty-miss contribution is
\* penalties_missed times -2, never positive, for every position and
\* whatever minutes_played is.
C9_PenaltyMisses ==
    LET expected_amount == player_stats.penalties_missed * (-2)
        without == [player_stats EXCEPT !.penalties_missed = 0]
    IN  /\ base_penalty_misses(player_stats) = expected_amount
        /\ expected_penalty_misses(player_stats) = expected_amount
        /\ base_penalty_misses(player_stats) <= 0
        /\ expected_penalty_misses(player_stats) <= 0
        /\ pc # "start" =>
               actual_base_points
                   = calculate_base_fpl_points(without) + expected_amount

C9_Witness ==
    /\ pc = "done"
    /\ player_stats.penalties_missed = 2
    /\ player_stats
           = [EmptyRecord("Goalkeeper", 0) EXCEPT !.penalties_missed = 2]
    /\ actual_base_points = -4

\* C10: for a position outside Goalkeeper, Defender, Midfielder, Forward both
\* calculators use goal value 4 and clean-sheet value 0, and the results equal
\* those of the same record with position Forward.
C10_UnrecognizedPosition ==
    player_stats.position \notin {"Goalkeeper", "Defender", "Midfielder", "Forward"} =>
        LET as_forward == [player_stats EXCEPT !.position = "Forward"]
        IN  /\ base_goals(player_stats) = player_stats.goals * 4
            /\ base_clean_sheet(player_stats) = 0
            /\ expected_goals(player_stats) = player_stats.xg * 4
            /\ expected_clean_sheet(player_stats) = 0
            /\ pc = "done" =>
                   /\ actual_base_points = calculate_base_fpl_points(as_forward)
                   /\ expected_base_points
                          = calculate_expected_base_fpl_points(as_forward)
                   /\ defensive_points
                          = calculate_defensive_contributions(as_forward, "Forward")

C10_Witness ==
    /\ pc = "done"
    /\ player_stats
           = [EmptyRecord("Unknown", FullMatch) EXCEPT !.goals = MaxGoals]
    /\ actual_base_points = 2 + 4 * MaxGoals

\* the goal value the calculators use: the table entry, 4 outside the table
GoalValue(position) ==
    IF position \in RecognizedPositions THEN OfficialGoalValue(position) ELSE 4

\* the value of the bonus column as the calculators count it
BonusOrZero(ps) ==
    IF "bonus" \notin DOMAIN ps THEN 0
    ELSE IF ps.bonus = << >> THEN 0
    ELSE ps.bonus[1]

\* C11: the two calculators differ only in the goal and assist slots:
\* actual - expected = (goals - xg) * goal_points[position] + (assists - xa) * 3,
\* so the results are equal whenever xg = goals and xa = assists.  (Both
\* sides are multiplied by XgDenominator.)
C11_ActualMinusExpected ==
    pc \in {"expected", "total", "done"} =>
        LET goals == XgDenominator * player_stats.goals
            assists == XgDenominator * player_stats.assists
        IN  /\ XgDenominator * actual_base_points - expected_base_points
                   = (goals - player_stats.xg) * GoalValue(player_stats.position)
                     + (assists - player_stats.xa) * 3
            /\ (player_stats.xg = goals /\ player_stats.xa = assists) =>
                   XgDenominator * actual_base_points = expected_base_points

C11_Witness ==
    /\ pc = "done"
    /\ player_stats.goals > 0
    /\ player_stats.xg = XgDenominator * player_stats.goals
    /\ player_stats.xa = XgDenominator * player_stats.assists
    /\ player_stats.position = "Defender"
    /\ XgDenominator * actual_base_points = expected_base_points

\* C12: calculate_actual_fpl_points_with_bonus returns the base points plus
\* the bonus, where an absent or NaN bonus counts as 0; the total is never
\* less than the base points when the bonus is >= 0.
C12_TotalWithBonus ==
    pc \in {"total", "done"} =>
        /\ actual_total_points = actual_base_points + BonusOrZero(player_stats)
        /\ actual_total_points >= actual_base_points

C12_Witness ==
    /\ pc = "done"
    /\ "bonus" \in DOMAIN player_stats
    /\ player_stats.bonus = <<MaxBonus>>
    /\ player_stats.position = "Midfielder"
    /\ player_stats.minutes_played = FullMatch
    /\ player_stats.goals = 1
    /\ actual_base_points = 8
    /\ actual_total_points = 8 + MaxBonus

\* the record ps with 0 in every optional field it lacks
WithZeroDefaults(ps) ==
    [f \in DOMAIN ps \cup OptionalFields |-> IF f \in DOMAIN ps THEN ps[f] ELSE 0]

\* C16: for a record that lacks optional fields both calculators return,
\* without raising, the value they return for the record with those fields
\* set to 0.
C16_MissingFieldsDefaultToZero ==
    /\ pc \in {"base", "expected", "total", "done"} =>
           actual_base_points
               = calculate_base_fpl_points(WithZeroDefaults(player_stats))
    /\ pc \in {"expected", "total", "done"} =>
           expected_base_points
               = calculate_expected_base_fpl_points(WithZeroDefaults(player_stats))

C16_Witness ==
    /\ pc = "done"
    /\ DOMAIN player_stats = DOMAIN BusyRecord("Forward", FullMatch) \ {"xg", "xa"}
    /\ player_stats.position = "Forward"
    /\ player_stats.minutes_played = FullMatch
    /\ actual_base_points = 9
    /\ expected_base_points = 2 * XgDenominator

C20_Monotone ==
    /\ pc # "start" =>
           /\ \A g \in player_stats.goals..MaxGoals :
                  calculate_base_fpl_points([player_stats EXCEPT !.goals = g])
                      >= actual_base_points
           /\ \A a \in player_stats.assists..MaxAssists :
                  calculate_base_fpl_points([player_stats EXCEPT !.assists = a])
                      >= actual_base_points
    /\ pc \in {"expected", "total", "done"} =>
           /\ \A x \in player_stats.xg..MaxXg :
                  calculate_expected_base_fpl_points([player_stats EXCEPT !.xg = x])
                      >= expected_base_points
           /\ \A x \in player_stats.xa..MaxXa :
                  calculate_expected_base_fpl_points([player_stats EXCEPT !.xa = x])
                      >= expected_base_points

C20_Witness ==
    /\ pc = "done"
    /\ player_stats.position = "Unknown"
    /\ player_stats.goals = 0
    /\ player_stats.assists = 1
    /\ player_stats.xg = 0
    /\ player_stats.xa = 1
    /\ calculate_base_fpl_points([player_stats EXCEPT !.assists = MaxAssists])
           > actual_base_points
    /\ calculate_expected_base_fpl_points([player_stats EXCEPT !.xa = MaxXa])
           > expected_base_points

\* the number of scores of the list l that are strictly higher than x
Higher(l, x) == Cardinality({i \in DOMAIN l : l[i] > x})

\* l holds the same scores as m, in some order
SameScores(l, m) ==
    /\ Len(l) = Len(m)
    /\ \A x \in BpsScores :
           Cardinality({i \in DOMAIN l : l[i] = x})
               = Cardinality({i \in DOMAIN m : m[i] = x})

\* C13: the award follows the index of the first occurrence of the
\* player's BPS in the match's BPS sorted in descending order, which is the
\* number of strictly higher scores: 3 for index 0, 2 for index 1, 1 for
\* index 2, 0 otherwise; for scores 50, 40, 40, 10 a player with 40 gets 2.
C13_BonusByFirstOccurrence ==
    ( /\ pc = "ranked"
      /\ match_players_bps # << >>
      /\ Contains(match_players_bps[1], player_bps) ) =>
        LET l == match_players_bps[1]
            sorted_bps == SortedDescending(l)
        IN  /\ \A i \in 1..(Len(sorted_bps) - 1) : sorted_bps[i] >= sorted_bps[i + 1]
            /\ SameScores(sorted_bps, l)
            /\ IndexOf(sorted_bps, player_bps) = Higher(l, player_bps)
            /\ expected_bonus_points
                   = ( CASE Higher(l, player_bps) = 0 -> 3
                         [] Higher(l, player_bps) = 1 -> 2
                         [] Higher(l, player_bps) = 2 -> 1
                         [] OTHER -> 0 )
            /\ (SameScores(l, <<50, 40, 40, 10>>) /\ player_bps = 40) =>
                   expected_bonus_points = 2

C13_Witness ==
    /\ pc = "ranked"
    /\ match_players_bps = << <<40, 10, 50, 40>> >>
    /\ player_bps = 40
    /\ expected_bonus_points = 2

\* C14: calculate_expected_bonus_points returns 0, without raising, when
\* the match BPS collection is None or empty and when the player's BPS does
\* not occur in it.
C14_NoBonusWithoutContext ==
    ( /\ pc = "ranked"
      /\ \/ match_players_bps = << >>
         \/ match_players_bps[1] = << >>
         \/ ~Contains(match_players_bps[1], player_bps) ) =>
        expected_bonus_points = 0

C14_Witness ==
    /\ pc = "ranked"
    /\ match_players_bps = << <<50>> >>
    /\ player_bps = 10
    /\ expected_bonus_points = 0

\* C15: per-90 normalization in get_best_value_players never yields an
\* infinite or NaN per-90 value: a row with minutes_played = 0 is rejected
\* or skipped rather than divided.
C15_NoInfiniteOrNaNPer90 ==
    pc = "best_value" =>
        \A i \in DOMAIN best_value :
            /\ best_value[i].actual_base_points_per_90.kind = "finite"
            /\ best_value[i].expected_base_points_per_90.kind = "finite"

\* C17: a malformed record of the batch (one lacking goals, assists, xg or
\* xa) does not abort analyze_players: the loop never raises, and when
\* analyze_players ends there is a result row for every record that passed
\* the filter.
C17_MalformedRecordDoesNotAbort ==
    /\ pc # "raised"
    /\ pc \in {"raised", "returned", "best_value"} => Len(results) = Len(df_filtered)

\* C18 as stated: analyze_players returns exactly one result row per input
\* record, so as many rows as there are records in the loaded frame.
C18_OneRowPerInputRecord ==
    pc \in {"returned", "best_value"} => Len(results) = Len(df)

\* the indices of the rows of df with at least min_minutes minutes
Kept == {i \in DOMAIN df : df[i].minutes_played >= min_minutes}

\* the index in df of the k-th such row
KeptIndex(k) == CHOOSE i \in Kept : Cardinality({j \in Kept : j <= i}) = k

\* C18 as amended: the merge keeps the rows of the loaded frame, one for
\* one and in order; the result rows are, in input order, one per record
\* with minutes_played >= min_minutes, so the frame that is returned has as
\* many rows as there are such records.
C18_OneRowPerPlayedRecord ==
    /\ pc = "loaded" =>
           LET merged == merge_with_playerstats(df, playerstats_df)
           IN  /\ Len(merged) = Len(df)
               /\ \A i \in DOMAIN df :
                      \A f \in DOMAIN df[i] : merged[i][f] = df[i][f]
    /\ pc \in {"loop", "raised", "returned", "best_value"} =>
           /\ Len(df_filtered) = Cardinality(Kept)
           /\ \A k \in DOMAIN df_filtered : df_filtered[k] = df[KeptIndex(k)]
           /\ Len(results) <= Len(df_filtered)
           /\ \A k \in DOMAIN results :
                  /\ results[k].player_name = df_filtered[k].web_name
                  /\ results[k].minutes_played = df_filtered[k].minutes_played
                  /\ results[k].minutes_played >= min_minutes
    /\ pc \in {"returned", "best_value"} => Len(results) = Cardinality(Kept)

C18_Witness ==
    /\ pc = "returned"
    /\ min_minutes = 30
    /\ Len(df) = 2
    /\ df[1].minutes_played = 29
    /\ df[2].minutes_played = 30
    /\ Len(playerstats_df) = 2
    /\ playerstats_df[1].web_name = playerstats_df[2].web_name
    /\ df[2].web_name = playerstats_df[1].web_name
    /\ Len(results) = 1
    /\ results[1].actual_bonus_points = 3

(***************************************************************************)
(* Properties of the report.                                               *)
(***************************************************************************)
Min(a, b) == IF a < b THEN a ELSE b

\* row a comes before row b in a stable descending sort on column; match_id
\* is the position of a row in the batch
Before(a, b, column) ==
    \/ a[column] > b[column]
    \/ a[column] = b[column] /\ a.match_id < b.match_id

\* list is the first n rows of the stable descending sort of pool on column
IsStableTop(list, pool, column, n) ==
    /\ Len(list) = Min(n, Len(pool))
    /\ \A k \in DOMAIN list : \E i \in DOMAIN pool : pool[i] = list[k]
    /\ \A k, l \in DOMAIN list : k < l => Before(list[k], list[l], column)
    /\ \A i \in DOMAIN pool :
          (\A k \in DOMAIN list : list[k] # pool[i])
              => \A k \in DOMAIN list : Before(list[k], pool[i], column)

\* C21: get_top_performers returns the first N rows of a stable descending
\* sort of the batch on the metric: min(N, batch size) rows, in
\* non-increasing order of the metric, rows of equal metric in batch order,
\* and every row left out comes after every row kept.
C21_TopPerformers ==
    pc \in {"top", "over", "under"}
        => IsStableTop(top_performers, results, requested_metric, requested_n)

\* a tie on the metric straddles the cut-off and the earlier row is kept
C21_Witness ==
    /\ pc = "top"
    /\ requested_n = 2
    /\ Len(results) = 3
    /\ results[2][requested_metric] = results[3][requested_metric]
    /\ results[1][requested_metric] < results[2][requested_metric]
    /\ top_performers = << results[2], results[3] >>
    /\ \E i, j \in DOMAIN df : i < j /\ df[i] # df[j]

\* the side of the band of +/- 0.5 a result row lies on
IsOver(row) == 2 * row.base_points_difference > XgDenominator

IsUnder(row) == 2 * row.base_points_difference < -XgDenominator

RowsOf(list) == { list[k] : k \in DOMAIN list }

\* C22 as stated: the over-performers are exactly the records with
\* base_points_difference > 0.5, the under-performers exactly those with
\* base_points_difference < -0.5, and each list is in descending order of
\* the magnitude of base_points_difference.
C22_RankedByMagnitude ==
    pc = "under"
        => /\ RowsOf(overperformers) = { r \in RowsOf(results) : IsOver(r) }
           /\ RowsOf(underperformers) = { r \in RowsOf(results) : IsUnder(r) }
           /\ \A k, l \in DOMAIN overperformers :
                 k < l => Abs(overperformers[k].base_points_difference)
                              >= Abs(overperformers[l].base_points_difference)
           /\ \A k, l \in DOMAIN underperformers :
                 k < l => Abs(underperformers[k].base_points_difference)
                              >= Abs(underperformers[l].base_points_difference)

\* C22 amended: the over-performers are the at most ReportTopN records with
\* base_points_difference > 0.5 that have the highest actual_base_points, in
\* descending actual_base_points; the under-performers are the at most
\* ReportTopN records with base_points_difference < -0.5 that have the
\* highest expected_base_points, in descending expected_base_points; a
\* record inside the band, +/- 0.5 included, is in neither list and no
\* record is in both.
C22_RankedByPoints ==
    pc = "under"
        => /\ IsStableTop(overperformers, SelectSeq(results, IsOver),
                          "actual_base_points", ReportTopN)
           /\ IsStableTop(underperformers, SelectSeq(results, IsUnder),
                          "expected_base_points", ReportTopN)
           /\ RowsOf(overperformers) \cap RowsOf(underperformers) = {}
           /\ \A r \in RowsOf(results) :
                 Abs(2 * r.base_points_difference) <= XgDenominator
                     => r \notin RowsOf(overperformers) \cup RowsOf(underperformers)

\* more than ReportTopN records are over the band, the list shows ReportTopN
\* of them, and a smaller difference is listed before a larger one
C22_Witness ==
    /\ pc = "under"
    /\ Len(SelectSeq(results, IsOver)) > ReportTopN
    /\ Len(overperformers) = ReportTopN
    /\ overperformers[1].base_points_difference
           < overperformers[ReportTopN].base_points_difference
    /\ \E r \in RowsOf(results) : 2 * r.base_points_difference = XgDenominator
    /\ \E r \in RowsOf(results) : 2 * r.base_points_difference = -XgDenominator
    /\ Len(underperformers) = ReportTopN

(***************************************************************************)
(* Two worked records.                                                     *)
(***************************************************************************)
\* C23: for the Defender with 90 minutes, 1 goal, no goal conceded and
\* clearances 5, blocks 2, interceptions 2, tackles_won 2, recoveries 0,
\* calculate_defensive_contributions returns 2 and calculate_base_fpl_points
\* returns 14.
C23_DefenderScenario ==
    player_stats = DefenderScenario
        => /\ pc \in {"base", "expected", "total", "done"} => actual_base_points = 14
           /\ pc = "done" => defensive_points = 2
           /\ calculate_defensive_contributions(player_stats, "Defender") = 2

C23_Witness ==
    /\ pc = "done"
    /\ player_stats.position = "Defender"
    /\ player_stats.minutes_played = 90
    /\ player_stats.goals = 1
    /\ player_stats.team_goals_conceded = 0
    /\ Cbit(player_stats) = 11
    /\ player_stats.recoveries = 0
    /\ actual_base_points = 14
    /\ defensive_points = 2

\* C24: for the Goalkeeper with 90 minutes, 9 saves and 3 goals conceded,
\* calculate_base_fpl_points returns 4: 2 for the minutes, 3 for the saves,
\* minus 1 for the goals conceded, nothing for a clean sheet.
C24_GoalkeeperScenario ==
    player_stats = GoalkeeperScenario
        => /\ pc \in {"base", "expected", "total", "done"} => actual_base_points = 4
           /\ base_appearance(player_stats) + base_playing_time(player_stats) = 2
           /\ base_saves(player_stats) = 3
           /\ base_goals_conceded(player_stats) = -1
           /\ base_clean_sheet(player_stats) = 0

C24_Witness ==
    /\ pc = "done"
    /\ player_stats.position = "Goalkeeper"
    /\ player_stats.minutes_played = 90
    /\ player_stats.saves = 9
    /\ player_stats.team_goals_conceded = 3
    /\ player_stats.goals = 0
    /\ actual_base_points = 4

(***************************************************************************)
(* Ties in the bonus ranking.                                              *)
(***************************************************************************)
\* the scores of the match that are at least every score of the match
TopScorers(l) == { i \in DOMAIN l : \A j \in DOMAIN l : l[i] >= l[j] }

\* C25: within one match, a player with the same BPS as the ranked player
\* gets the same award, a player with a strictly higher BPS never gets a
\* smaller award and one with a lower BPS never a larger one; when the two
\* highest scores of the match are tied, no player of the match is awarded 2.
C25_TiesAndOrder ==
    (pc = "ranked" /\ match_players_bps # << >>)
        => LET l == match_players_bps[1]
               award(i) == calculate_expected_bonus_points(l[i], match_players_bps)
           IN  /\ \A i \in DOMAIN l :
                     l[i] = player_bps => award(i) = expected_bonus_points
               /\ \A i \in DOMAIN l :
                     (Contains(l, player_bps) /\ l[i] > player_bps)
                         => award(i) >= expected_bonus_points
               /\ \A i \in DOMAIN l :
                     (Contains(l, player_bps) /\ l[i] < player_bps)
                         => award(i) <= expected_bonus_points
               /\ Cardinality(TopScorers(l)) >= 2
                     => /\ expected_bonus_points # 2
                        /\ \A i \in DOMAIN l : award(i) # 2

\* two players share the highest score, and the next player is awarded 1
C25_Witness ==
    /\ pc = "ranked"
    /\ match_players_bps # << >>
    /\ Len(match_players_bps[1]) = 3
    /\ Cardinality(TopScorers(match_players_bps[1])) = 2
    /\ Contains(match_players_bps[1], player_bps)
    /\ \E i \in DOMAIN match_players_bps[1] : match_players_bps[1][i] > player_bps
    /\ expected_bonus_points = 1

(***************************************************************************)
(* Properties of run_full_automation.                                      *)
(***************************************************************************)
Count(l, x) == Cardinality({ i \in DOMAIN l : l[i] = x })

\* the lines that the failing steps of a run log
PrerequisiteFailures == { "Not in a git repository", "Database connection failed" }

PullFailures == { "Failed to stash changes", "Failed to merge upstream updates" }

DatabaseFailures == { "Database ingestion script not found", "Failed to update database" }

FailureLines ==
    PrerequisiteFailures \cup PullFailures \cup DatabaseFailures
        \cup { "Unexpected error in automation" }

Logged(lines) == \E i \in DOMAIN log : log[i] \in lines

\* C26: on every path through run_full_automation the final summary is
\* printed exactly once, as the last thing before the call returns, and the
\* call returns False when the prerequisites, the upstream merge or the
\* database update failed or an exception was raised.
C26_SummaryOnEveryPath ==
    /\ pc \in { "prerequisites", "check_updates", "pull", "draft", "database",
                "summary", "metabase", "except", "finally" }
          => Count(log, "FULL UPDATE AUTOMATION SUMMARY") = 0
    /\ pc = "exit"
          => /\ Count(log, "FULL UPDATE AUTOMATION SUMMARY") = 1
             /\ log[Len(log)] = "FULL UPDATE AUTOMATION SUMMARY"
             /\ return_value \in { <<TRUE>>, <<FALSE>> }
             /\ Logged(FailureLines) => return_value = <<FALSE>>

\* a run whose database update failed has returned False after one summary
C26_Witness ==
    /\ pc = "exit"
    /\ Logged({"Failed to update database"})
    /\ return_value = <<FALSE>>
    /\ Count(log, "FULL UPDATE AUTOMATION SUMMARY") = 1

\* C27: resync_metabase is invoked only after update_database returned True
\* in the same run, and update_database is invoked only after the
\* prerequisite check passed and only when upstream updates were pulled, the
\* draft data was updated, or the players table is empty.
C27_DatabaseUpdateOnlyWhenNeeded ==
    /\ Logged({"=== Resyncing Metabase ==="})
          => /\ update_summary.database_updated
             /\ Logged({"Successfully updated database"})
    /\ Logged({"=== Updating Database ==="})
          => /\ Logged({"All prerequisites check passed"})
             /\ \/ update_summary.github_updated
                \/ update_summary.draft_updated
                \/ players_count = 0

\* C28: when updates are available and pull_github_updates fails, the run
\* returns False, update_draft_league_data, update_database and
\* resync_metabase are not invoked, and github_updated stays False.
C28_PullFailureStops ==
    Logged(PullFailures)
        => /\ updates_available
           /\ ~update_summary.github_updated
           /\ ~Logged({ "=== Updating Draft League Data ===",
                        "=== Updating Database ===",
                        "=== Resyncing Metabase ===" })
           /\ pc \in {"finally", "exit"}
           /\ return_value = <<FALSE>>

C28_Witness ==
    /\ pc = "exit"
    /\ Logged({"Failed to merge upstream updates"})
    /\ update_summary.errors = << "Upstream merge failed" >>
    /\ return_value = <<FALSE>>

\* C29: update_draft_league_data returns True whether the fetch succeeds,
\* fails or has no script; a failed fetch appends 'Draft league update
\* failed' to errors and leaves draft_updated False, the run goes on to the
\* database step, and a run with no other failure returns True.
C29_DraftFailureIsNotFatal ==
    /\ \A script_exists, success \in BOOLEAN :
          update_draft_league_data(update_summary, script_exists, success).returned
    /\ Logged({"Failed to update draft league data"})
          => /\ Contains(update_summary.errors, "Draft league update failed")
             /\ ~update_summary.draft_updated
             /\ pc # "draft"
    /\ (log # << >> /\ log[Len(log)] = "Failed to update draft league data")
          => /\ pc \in {"database", "except"}
             /\ return_value = << >>
    /\ (pc = "exit" /\ Logged({"Failed to update draft league data"})
            /\ ~Logged(FailureLines))
          => return_value = <<TRUE>>

\* the fetch failed, the database step ran after it and the run returned True
C29_Witness ==
    /\ pc = "exit"
    /\ Logged({"Failed to update draft league data"})
    /\ Logged({"Successfully updated database"})
    /\ ~update_summary.draft_updated
    /\ return_value = <<TRUE>>

(***************************************************************************)
(* Properties of import_season_data.                                       *)
(***************************************************************************)
\* C30: import_season_data is all-or-nothing.  The committed tables change
\* in one step only, the commit, which comes after the block of every
\* present dataset and makes the call return True; when a step raises, the
\* handler rolls the transaction back, records the error and returns False
\* with the committed tables as they were; a call that returned False leaves
\* no transaction open.
C30_AllOrNothing ==
    /\ [][ /\ tables' # tables
              => /\ pc = "commit"
                 /\ imported' = <<TRUE>>
                 /\ tables' = transaction[1]
                 /\ \A t \in TableNames :
                       season_data[t] # << >>
                           => /\ import_summary.season_data[t]
                                     = << Len(season_data[t][1]) >>
                              /\ Len(transaction[1][t]) <= Len(season_data[t][1])
                              /\ \A i \in DOMAIN season_data[t][1] :
                                    \E j \in DOMAIN transaction[1][t] :
                                       transaction[1][t][j] = season_data[t][1][i]
           /\ pc = "import_except"
              => /\ tables' = tables
                 /\ transaction' = << >>
                 /\ imported' = <<FALSE>>
                 /\ Len(import_summary'.errors) = Len(import_summary.errors) + 1
         ]_vars
    /\ [](imported = <<FALSE>> => transaction = << >>)
    /\ [](transaction # << >> => imported = << >>)

\* an INSERT raised after the teams went in: the call returned False with the
\* error recorded and the stored rows are still there
C30_Witness ==
    /\ pc = "imported"
    /\ imported = <<FALSE>>
    /\ import_summary.errors # << >>
    /\ import_summary.season_data["teams"] = <<MaxCsvRows>>
    /\ tables = [t \in TableNames |-> << StoredRow(1) >>]
    /\ transaction = << >>

====
